---- MODULE Spec2Model ----
(***************************************************************************)
(* State-machine model of the hybrid relevance-ranking engine:             *)
(*   VectorSearch  (embedding index, encoder life cycle)                   *)
(*   SearchScorer  (title / body / metadata / fuzzy sub-scores)            *)
(*   IssueSearch   (search: one asynchronous scoring task per record id)   *)
(*                                                                         *)
(* Strings are sequences of one-character strings.  Floating-point scores  *)
(* are fixed-point integers: a sub-score s is stored as s * Scale, a       *)
(* weighted total as total * 10 * Scale (the weights are kept in tenths).  *)
(***************************************************************************)
EXTENDS Integers, Sequences, FiniteSets, TLC

(***************************************************************************)
(* Characters and the string primitives of the JavaScript runtime          *)
(***************************************************************************)
Letters == {"a", "b", "c", "d", "e", "f", "g", "h", "i", "j", "k", "l", "m",
            "n", "o", "p", "q", "r", "s", "t", "u", "v", "w", "x", "y", "z",
            "A", "B", "L", "S"}
Digits == {"0", "1", "2", "3", "4", "5", "6", "7", "8", "9"}

\* String.prototype.toLowerCase, one character
LowerChar(c) ==
  CASE c = "A" -> "a"
    [] c = "B" -> "b"
    [] c = "L" -> "l"
    [] c = "S" -> "s"
    [] OTHER -> c

ToLower(s) == [i \in 1..Len(s) |-> LowerChar(s[i])]

\* the regular-expression class \s
IsSpace(c) == c = " "

\* the regular-expression class \w
IsWordChar(c) == c \in Letters \cup Digits \cup {"_"}

RECURSIVE TrimLeft(_)
TrimLeft(s) ==
  IF s # <<>> /\ IsSpace(Head(s)) THEN TrimLeft(Tail(s)) ELSE s

RECURSIVE TrimRight(_)
TrimRight(s) ==
  IF s # <<>> /\ IsSpace(s[Len(s)]) THEN TrimRight(SubSeq(s, 1, Len(s) - 1)) ELSE s

\* String.prototype.trim
Trim(s) == TrimRight(TrimLeft(s))

\* String.prototype.split(/\s+/): the pieces between maximal runs of blanks
RECURSIVE SplitFrom(_, _, _, _)
SplitFrom(s, i, cur, acc) ==
  IF i > Len(s) THEN Append(acc, cur)
  ELSE IF IsSpace(s[i])
       THEN IF i < Len(s) /\ IsSpace(s[i + 1])
            THEN SplitFrom(s, i + 1, cur, acc)
            ELSE SplitFrom(s, i + 1, <<>>, Append(acc, cur))
       ELSE SplitFrom(s, i + 1, Append(cur, s[i]), acc)

SplitWs(s) == SplitFrom(s, 1, <<>>, <<>>)

\* String.prototype.replace(/\s+/g, blank): every run of blanks becomes one blank
RECURSIVE CollapseWs(_)
CollapseWs(s) ==
  IF s = <<>> THEN <<>>
  ELSE IF IsSpace(Head(s))
       THEN IF Len(s) > 1 /\ IsSpace(s[2]) THEN CollapseWs(Tail(s))
            ELSE <<" ">> \o CollapseWs(Tail(s))
       ELSE <<Head(s)>> \o CollapseWs(Tail(s))

\* String.prototype.includes
Includes(s, t) ==
  \E i \in 0..(Len(s) - Len(t)) : SubSeq(s, i + 1, i + Len(t)) = t

\* String.prototype.startsWith
StartsWith(s, t) == Len(t) <= Len(s) /\ SubSeq(s, 1, Len(t)) = t

\* Array.prototype.join(blank)
RECURSIVE JoinSpace(_)
JoinSpace(terms) ==
  IF terms = <<>> THEN <<>>
  ELSE IF Len(terms) = 1 THEN terms[1]
       ELSE terms[1] \o <<" ">> \o JoinSpace(Tail(terms))

\* Number.prototype.toString for a non-negative integer
DigitChar(d) ==
  CASE d = 0 -> "0" [] d = 1 -> "1" [] d = 2 -> "2" [] d = 3 -> "3"
    [] d = 4 -> "4" [] d = 5 -> "5" [] d = 6 -> "6" [] d = 7 -> "7"
    [] d = 8 -> "8" [] OTHER -> "9"

RECURSIVE NumToString(_)
NumToString(n) ==
  IF n < 10 THEN <<DigitChar(n)>>
  ELSE NumToString(n \div 10) \o <<DigitChar(n % 10)>>

Min(a, b) == IF a < b THEN a ELSE b
Max(a, b) == IF a > b THEN a ELSE b


(***************************************************************************)
(* Fixed-point arithmetic and configuration                                *)
(***************************************************************************)
\* one unit of score; a multiple of every divisor the scorers use
Scale == 2520 * 10

\* IssueSearch._weights, in tenths
Weights == [title |-> 3, body |-> 2, fuzzy |-> 2, meta |-> 1, vector |-> 2]

\* IssueSearch._config (fuzzyMatchWeight in tenths)
Config == [fuzzySearchThreshold |-> (7 * Scale) \div 10,
           exactMatchBonus |-> Scale,
           fuzzyMatchWeight |-> 7]

\* an optional field: <<>> is undefined, <<v>> is the value v
Undefined == <<>>
OrEmpty(opt) == IF opt = Undefined THEN <<>> ELSE opt[1]

\* the fresh evidence accumulator of _calculateIssueRelevance / _createEmptyResult
EmptyMatchDetails ==
  [titleMatches |-> <<>>, bodyMatches |-> <<>>, labelMatches |-> <<>>,
   numberMatch |-> FALSE, similarityScore |-> 0, fuzzyMatches |-> <<>>]

(***************************************************************************)
(* StringSimilarity (string-similarity.ts): normalised edit distance       *)
(***************************************************************************)
\* one row of the distance matrix, built left to right from the row above
RECURSIVE LevenshteinRow(_, _, _, _)
LevenshteinRow(prev, ch, b, row) ==
  LET j == Len(row)
      cost == IF ch = b[j] THEN 0 ELSE 1
  IN IF j > Len(b) THEN row
     ELSE LevenshteinRow(prev, ch, b,
            Append(row, Min(Min(prev[j + 1] + 1, row[j] + 1), prev[j] + cost)))

RECURSIVE LevenshteinRows(_, _, _, _)
LevenshteinRows(a, b, i, prev) ==
  IF i > Len(a) THEN prev[Len(b) + 1]
  ELSE LevenshteinRows(a, b, i + 1, LevenshteinRow(prev, a[i], b, <<i>>))

Levenshtein(a, b) == LevenshteinRows(a, b, 1, [j \in 1..(Len(b) + 1) |-> j - 1])

StringSimilarityCalculate(a, b) ==
  LET maxLen == Max(Len(a), Len(b))
  IN IF maxLen = 0 THEN Scale
     ELSE Scale - (Levenshtein(a, b) * Scale) \div maxLen

(***************************************************************************)
(* SearchScorer                                                            *)
(***************************************************************************)
\* TitleTermScore with a seeded fault: no bonus for a title that starts with
\* the term
TitleTermScoreNoPrefix(title, term) ==
  IF Includes(title, term) THEN Config.exactMatchBonus ELSE 0

\* SearchScorer.calculateTitleScore
TitleTermScore(title, term) ==
  IF Includes(title, term)
  THEN Config.exactMatchBonus + (IF StartsWith(title, term) THEN Scale \div 2 ELSE 0)
  ELSE 0

calculateTitleScore(issue, searchTerms, matchDetails) ==
  LET title == ToLower(issue.title)
      acc[k \in 0..Len(searchTerms)] ==
        IF k = 0 THEN 0 ELSE acc[k - 1] + TitleTermScore(title, searchTerms[k])
      InTitle(term) == Includes(title, term)
      phrase == IF Len(searchTerms) > 1 /\ Includes(title, JoinSpace(searchTerms))
                THEN Scale ELSE 0
  IN [score |-> Min(acc[Len(searchTerms)] + phrase, 3 * Scale),
      matchDetails |-> [matchDetails EXCEPT
         !.titleMatches = @ \o SelectSeq(searchTerms, InTitle)]]

\* new RegExp(term, gi) raises SyntaxError for an unterminated group
RegExpThrows(term) == \E i \in 1..Len(term) : term[i] = "("

\* does the pattern (literal characters, a dot for any character; flag i) match at i
RegExpMatchesAt(text, term, i) ==
  /\ i + Len(term) - 1 <= Len(text)
  /\ \A k \in 1..Len(term) :
       term[k] = "." \/ LowerChar(term[k]) = LowerChar(text[i + k - 1])

\* (text.match(new RegExp(term, gi)) || []).length: non-overlapping matches
RECURSIVE RegExpMatchCount(_, _, _)
RegExpMatchCount(text, term, i) ==
  IF i > Len(text) THEN 0
  ELSE IF RegExpMatchesAt(text, term, i)
       THEN 1 + RegExpMatchCount(text, term, i + Len(term))
       ELSE RegExpMatchCount(text, term, i + 1)

\* the grave accent (U+0060) is written "#"
BackTick == "#"
Fence == <<BackTick, BackTick, BackTick>>

\* first index >= i at which a fence starts, 0 when there is none
RECURSIVE FenceFrom(_, _)
FenceFrom(text, i) ==
  IF i + 2 > Len(text) THEN 0
  ELSE IF SubSeq(text, i, i + 2) = Fence THEN i ELSE FenceFrom(text, i + 1)

\* text.match(/<fence>[\s\S]*?<fence>/g) || []: the fenced code blocks
RECURSIVE CodeBlocksFrom(_, _)
CodeBlocksFrom(text, i) ==
  LET open == FenceFrom(text, i)
      close == IF open = 0 THEN 0 ELSE FenceFrom(text, open + 3)
  IN IF open = 0 \/ close = 0 THEN <<>>
     ELSE <<SubSeq(text, open, close + 2)>> \o CodeBlocksFrom(text, close + 3)

CodeBlocks(text) == CodeBlocksFrom(text, 1)

BodyTermScore(body, term) ==
  LET matches == RegExpMatchCount(body, term, 1)
      blocks == CodeBlocks(body)
      HasTerm(block) == Includes(ToLower(block), term)
  IN (IF matches > 0 THEN Min((matches * Scale) \div 2, Scale) ELSE 0)
     + Len(SelectSeq(blocks, HasTerm)) * (Scale \div 2)

\* SearchScorer.calculateBodyScore; threw = TRUE when new RegExp raises
calculateBodyScore(issue, searchTerms, matchDetails) ==
  LET body == ToLower(OrEmpty(issue.body))
      acc[k \in 0..Len(searchTerms)] ==
        IF k = 0 THEN 0 ELSE acc[k - 1] + BodyTermScore(body, searchTerms[k])
      InBody(term) == RegExpMatchCount(body, term, 1) > 0
  IN IF \E k \in 1..Len(searchTerms) : RegExpThrows(searchTerms[k])
     THEN [threw |-> TRUE, score |-> 0, matchDetails |-> matchDetails]
     ELSE [threw |-> FALSE,
           score |-> Min(acc[Len(searchTerms)], 2 * Scale),
           matchDetails |-> [matchDetails EXCEPT
              !.bodyMatches = @ \o SelectSeq(searchTerms, InBody)]]

\* /^\d+$/.test(term)
IsNumeric(term) == term # <<>> /\ \A i \in 1..Len(term) : term[i] \in Digits

\* searchTerms.find(term => /^\d+$/.test(term)): the first numeric term
FindNumberTerm(searchTerms) ==
  LET numeric == SelectSeq(searchTerms, IsNumeric)
  IN IF numeric = <<>> THEN Undefined ELSE <<numeric[1]>>

\* typeof label === object && label.name && label.name.toLowerCase().includes(term)
LabelMatches(label, term) ==
  label.isObject /\ label.name # <<>> /\ Includes(ToLower(label.name), term)

\* the label names pushed for one term, in label order
LabelHits(labels, term) ==
  LET Hit(label) == LabelMatches(label, term)
      hits == SelectSeq(labels, Hit)
  IN [i \in 1..Len(hits) |-> hits[i].name]

\* SearchScorer.calculateMetaScore
calculateMetaScore(issue, searchTerms, matchDetails) ==
  LET numberTerm == FindNumberTerm(searchTerms)
      numberMatch == numberTerm # Undefined /\ NumToString(issue.number) = numberTerm[1]
      labels == OrEmpty(issue.labels)
      pushed[k \in 0..Len(searchTerms)] ==
        IF k = 0 THEN <<>> ELSE pushed[k - 1] \o LabelHits(labels, searchTerms[k])
      all == pushed[Len(searchTerms)]
  IN [score |-> (IF numberMatch THEN 2 * Scale ELSE 0) + Len(all) * (Scale \div 2),
      matchDetails |-> [matchDetails EXCEPT
         !.numberMatch = @ \/ numberMatch,
         !.labelMatches = @ \o all]]

\* content.replace(/[^\w\s]/g, blank)
StripPunctuation(s) ==
  [i \in 1..Len(s) |-> IF IsWordChar(s[i]) \/ IsSpace(s[i]) THEN s[i] ELSE " "]

\* SearchScorer._tokenizeContent
tokenizeContent(content) ==
  LET LongWord(word) == Len(word) > 2
  IN SelectSeq(SplitWs(StripPunctuation(ToLower(content))), LongWord)

\* BestMatch with a seeded fault: a similarity equal to the threshold counts
BestMatchInclusive(contentWords, searchTerm) ==
  LET best[k \in 0..Len(contentWords)] ==
        IF k = 0 THEN [word |-> <<>>, score |-> 0]
        ELSE LET similarity == StringSimilarityCalculate(searchTerm, contentWords[k])
             IN IF similarity >= Config.fuzzySearchThreshold /\ similarity > best[k - 1].score
                THEN [word |-> contentWords[k], score |-> similarity]
                ELSE best[k - 1]
  IN best[Len(contentWords)]

\* the inner contentWords.forEach of calculateFuzzyScore
BestMatch(contentWords, searchTerm) ==
  LET best[k \in 0..Len(contentWords)] ==
        IF k = 0 THEN [word |-> <<>>, score |-> 0]
        ELSE LET similarity == StringSimilarityCalculate(searchTerm, contentWords[k])
             IN IF similarity > Config.fuzzySearchThreshold /\ similarity > best[k - 1].score
                THEN [word |-> contentWords[k], score |-> similarity]
                ELSE best[k - 1]
  IN best[Len(contentWords)]

\* SearchScorer.calculateFuzzyScore
calculateFuzzyScore(content, searchTerms, matchDetails) ==
  LET contentWords == tokenizeContent(content)
      st[k \in 0..Len(searchTerms)] ==
        IF k = 0 THEN [score |-> 0, fuzzyMatches |-> <<>>]
        ELSE LET bestMatch == BestMatch(contentWords, searchTerms[k])
             IN IF bestMatch.score > 0
                THEN [score |-> st[k - 1].score
                                + (bestMatch.score * Config.fuzzyMatchWeight) \div 10,
                      fuzzyMatches |-> Append(st[k - 1].fuzzyMatches,
                         [original |-> searchTerms[k], matched |-> bestMatch.word,
                          score |-> bestMatch.score])]
                ELSE st[k - 1]
      end == st[Len(searchTerms)]
  IN [score |-> Min(end.score, 2 * Scale),
      matchDetails |-> [matchDetails EXCEPT !.fuzzyMatches = @ \o end.fuzzyMatches]]


(***************************************************************************)
(* VectorSearch: pure parts                                                *)
(***************************************************************************)
\* floor of the square root (Math.sqrt in fixed point)
RECURSIVE ISqrtBetween(_, _, _)
ISqrtBetween(n, lo, hi) ==
  IF lo >= hi THEN lo
  ELSE LET mid == (lo + hi + 1) \div 2
       IN IF mid * mid <= n THEN ISqrtBetween(n, mid, hi)
          ELSE ISqrtBetween(n, lo, mid - 1)

ISqrt(n) == ISqrtBetween(n, 0, Min(n, 46340))

\* VectorSearch._preprocessText
preprocessText(text) == Trim(CollapseWs(ToLower(text)))

\* The feature-extraction pipeline with pooling mean, normalize true: a
\* deterministic map from text to a vector of length 5 (a unit vector in
\* fifths).  The model stands for the external encoder; it is fixed by the
\* first character of the text.
Encode(text) ==
  IF text = <<>> THEN <<0, 0>>
  ELSE CASE text[1] \in {"a", "b", "c", "d", "e", "f", "g", "h"} -> <<5, 0>>
         [] text[1] \in {"i", "j", "k", "l", "m", "n", "o", "p"} -> <<3, 4>>
         [] text[1] \in {"q", "r", "s", "t", "u", "v", "w", "x", "y", "z"} -> <<0, 5>>
         [] text[1] \in Digits -> <<4, 3>>
         [] OTHER -> <<-5, 0>>

Dot(a, b) == a[1] * b[1] + a[2] * b[2]

\* VectorSearch._calculateCosineSimilarity, result in units of 1/Scale
calculateCosineSimilarity(vecA, vecB) ==
  LET dotProduct == Dot(vecA, vecB)
      normA == ISqrt(Dot(vecA, vecA))
      normB == ISqrt(Dot(vecB, vecB))
      similarity == IF normA * normB = 0 THEN 0
                    ELSE (dotProduct * Scale) \div (normA * normB)
  IN Max(0, Min(Scale, similarity))

\* Map.prototype.has / get / set on the insertion-ordered _documentVectors
MapHas(m, id) == \E k \in 1..Len(m) : m[k].id = id
MapGet(m, id) == m[CHOOSE k \in 1..Len(m) : m[k].id = id].vector
MapSet(m, id, vector) ==
  IF MapHas(m, id)
  THEN [k \in 1..Len(m) |-> IF m[k].id = id THEN [id |-> id, vector |-> vector] ELSE m[k]]
  ELSE Append(m, [id |-> id, vector |-> vector])
MapKeys(m) == {m[k].id : k \in 1..Len(m)}

\* the chunk size of initializeVectors
batchSize == 32

\* batch.forEach((doc, index) => this._documentVectors.set(doc.id, vector)),
\* from index k on; the test on Len(m) has the map computed before the next
\* set is applied
RECURSIVE StoreFrom(_, _, _)
StoreFrom(m, batch, k) ==
  IF k > Len(batch) \/ Len(m) < 0 THEN m
  ELSE StoreFrom(MapSet(m, batch[k].id, Encode(preprocessText(batch[k].content))),
                 batch, k + 1)

StoreBatch(m, batch) == StoreFrom(m, batch, 1)

\* BatchAt with a seeded fault: the slice is one document short
BatchAtShort(documents, i) ==
  SubSeq(documents, i + 1, Min(i + batchSize - 1, Len(documents)))

\* documents.slice(i, i + batchSize), i counted from 0
BatchAt(documents, i) == SubSeq(documents, i + 1, Min(i + batchSize, Len(documents)))

\* the head of the chunk loop of initializeVectors, entered with index i
ChunkLoop(documents, i, enc) ==
  IF i >= Len(documents) THEN [pc |-> "resolved", documents |-> documents, i |-> i]
  ELSE IF enc = "undefined" THEN [pc |-> "rejected", documents |-> documents, i |-> i]
  ELSE [pc |-> "awaitEncoder", documents |-> documents, i |-> i]

\* the combined query vector of getSimilarityScore: sum of the term
\* embeddings, divided by its norm (components in thousandths)
RECURSIVE SumEmbeddings(_)
SumEmbeddings(queryTerms) ==
  IF queryTerms = <<>> THEN <<0, 0>>
  ELSE LET e == Encode(preprocessText(Head(queryTerms)))
           r == SumEmbeddings(Tail(queryTerms))
       IN <<e[1] + r[1], e[2] + r[2]>>

CombinedVector(queryTerms) ==
  LET sum == SumEmbeddings(queryTerms)
      norm == ISqrt(Dot(sum, sum))
  IN IF norm > 0 THEN <<(sum[1] * 1000) \div norm, (sum[2] * 1000) \div norm>>
     ELSE sum

\* SimilarityCall with a seeded fault: the encoder is checked before the
\* fast reject
SimilarityCallEncoderFirst(m, enc, documentId, queryTerms) ==
  IF enc = "undefined"
  THEN [pc |-> "rejected", value |-> 0, error |-> "EncoderNotInitialized",
        encoderCalls |-> 0]
  ELSE IF ~MapHas(m, documentId) \/ Len(queryTerms) = 0
  THEN [pc |-> "resolved", value |-> 0, error |-> "none", encoderCalls |-> 0]
  ELSE [pc |-> "awaitEncoder", value |-> 0, error |-> "none",
        encoderCalls |-> Len(queryTerms)]

\* getSimilarityScore up to its first await (lines 137-158)
SimilarityCall(m, enc, documentId, queryTerms) ==
  IF ~MapHas(m, documentId) \/ Len(queryTerms) = 0
  THEN [pc |-> "resolved", value |-> 0, error |-> "none", encoderCalls |-> 0]
  ELSE IF enc = "undefined"
  THEN [pc |-> "rejected", value |-> 0, error |-> "EncoderNotInitialized",
        encoderCalls |-> 0]
  ELSE [pc |-> "awaitEncoder", value |-> 0, error |-> "none",
        encoderCalls |-> Len(queryTerms)]

\* getSimilarityScore after the term embeddings arrive (lines 160-181)
SimilarityFinish(m, frame, documentId, queryTerms) ==
  IF ~MapHas(m, documentId)
  THEN [frame EXCEPT !.pc = "rejected", !.error = "DocumentNotFound"]
  ELSE [frame EXCEPT !.pc = "resolved",
          !.value = calculateCosineSimilarity(CombinedVector(queryTerms),
                                              MapGet(m, documentId))]

\* the encoder call of getSimilarityScore rejects
SimilarityEncoderFailed(frame) ==
  [frame EXCEPT !.pc = "rejected", !.error = "EncoderFailed"]

\* scores.sort((a, b) => b.score - a.score): a stable sort, descending
RECURSIVE InsertByScore(_, _)
InsertByScore(sorted, x) ==
  IF sorted = <<>> THEN <<x>>
  ELSE IF Head(sorted).score >= x.score
       THEN <<Head(sorted)>> \o InsertByScore(Tail(sorted), x)
       ELSE <<x>> \o sorted

RECURSIVE SortByScore(_)
SortByScore(scores) ==
  IF scores = <<>> THEN <<>>
  ELSE InsertByScore(SortByScore(SubSeq(scores, 1, Len(scores) - 1)),
                     scores[Len(scores)])

\* VectorSearch.search after the query embedding arrives (lines 123-134)
TopKResult(m, query, topK) ==
  LET queryVector == Encode(preprocessText(query))
      scores == [k \in 1..Len(m) |->
                   [id |-> m[k].id,
                    score |-> calculateCosineSimilarity(queryVector, m[k].vector)]]
  IN SubSeq(SortByScore(scores), 1, Min(topK, Len(m)))


(***************************************************************************)
(* IssueSearch: pure parts                                                 *)
(***************************************************************************)
\* IssueSearch._preprocessSearchTerms
preprocessSearchTerms(searchText) ==
  LET NonEmpty(term) == term # <<>>
      kept == SelectSeq(SplitWs(searchText), NonEmpty)
  IN [k \in 1..Len(kept) |-> ToLower(kept[k])]

\* issue.labels?.map(l => typeof l === object && l.name ? l.name : empty)
LabelNames(labels) ==
  [k \in 1..Len(labels) |->
     IF labels[k].isObject /\ labels[k].name # <<>> THEN labels[k].name ELSE <<>>]

\* IssueSearch._getSearchableContent
getSearchableContent(issue) ==
  ToLower(issue.title \o <<" ">> \o OrEmpty(issue.body) \o <<" ">>
          \o (IF issue.labels = Undefined THEN <<>>
              ELSE JoinSpace(LabelNames(issue.labels[1]))))

\* createEmptyResult with a seeded fault: the score ignores the visible flag
createEmptyResultScoreOne(visible) ==
  [visible |-> visible, score |-> 10 * Scale, matchDetails |-> EmptyMatchDetails]

\* IssueSearch._createEmptyResult; score 1 in the units of a weighted total
createEmptyResult(visible) ==
  [visible |-> visible,
   score |-> IF visible THEN 10 * Scale ELSE 0,
   matchDetails |-> EmptyMatchDetails]

\* the four synchronous sub-scores of _calculateIssueRelevance (lines 68-88)
RelevanceScores(issue, searchTerms) ==
  LET t == calculateTitleScore(issue, searchTerms, EmptyMatchDetails)
      b == calculateBodyScore(issue, searchTerms, t.matchDetails)
      f == calculateFuzzyScore(getSearchableContent(issue), searchTerms, b.matchDetails)
      m == calculateMetaScore(issue, searchTerms, f.matchDetails)
  IN IF b.threw
     THEN [threw |-> TRUE, title |-> t.score, body |-> 0, fuzzy |-> 0, meta |-> 0,
           matchDetails |-> t.matchDetails]
     ELSE [threw |-> FALSE, title |-> t.score, body |-> b.score, fuzzy |-> f.score,
           meta |-> m.score, matchDetails |-> m.matchDetails]

\* TotalScore with a seeded fault: the vector score is left out of the sum
TotalScoreNoVector(scores, vector) ==
  scores.title * Weights.title + scores.body * Weights.body
  + scores.fuzzy * Weights.fuzzy + scores.meta * Weights.meta

\* the weighted total of _calculateIssueRelevance (lines 95-97)
TotalScore(scores, vector) ==
  scores.title * Weights.title + scores.body * Weights.body
  + scores.fuzzy * Weights.fuzzy + scores.meta * Weights.meta
  + vector * Weights.vector

\* the SearchResult built by _calculateIssueRelevance (lines 92-105)
RelevanceResult(scores, vector) ==
  LET totalScore == TotalScore(scores, vector)
      isVisible == totalScore > 0 \/ scores.matchDetails.numberMatch
  IN [visible |-> isVisible,
      score |-> IF isVisible THEN totalScore ELSE 0,
      matchDetails |-> [scores.matchDetails EXCEPT !.similarityScore = vector]]


(***************************************************************************)
(* Bounds and inputs                                                       *)
(***************************************************************************)
\* longest list of requested ids handed to IssueSearch.search
MaxIssueIds == 2
\* direct calls of VectorSearch.initializeVectors in one behaviour (caller
\* c + 1 calls after caller c has called; the calls overlap freely)
MaxIndexCalls == 2
\* calls of IssueSearch.initializeVectors in one behaviour
MaxIndexBuilds == 1
\* calls of clearDocuments in one behaviour
MaxClears == 1

IndexCallers == 1..Max(MaxIndexCalls, MaxIndexBuilds)
DirectCallers == 1..MaxIndexCalls
BuildCallers == 1..MaxIndexBuilds

\* the records held by the task manager
Issue1 ==
  [id |-> 1, number |-> 42, title |-> <<"L", "o", "g", "i", "n">>,
   body |-> <<<<"a", "b", " ", "#", "#", "#", "a", "b", "#", "#", "#">>>>,
   labels |-> <<<<[isObject |-> TRUE, name |-> <<"B", "u", "g">>]>>>>]
Issue2 ==
  [id |-> 2, number |-> 7, title |-> <<"S", "a", "f", "a", "r", "i">>,
   body |-> Undefined, labels |-> Undefined]
Issues == {Issue1, Issue2}

\* ids a caller may request; 3 is held by no record
IssueIds == {1, 2, 3}

\* TaskManager.getGitHubIssueById
getGitHubIssueById(issueId) ==
  IF \E issue \in Issues : issue.id = issueId
  THEN <<CHOOSE issue \in Issues : issue.id = issueId>>
  ELSE Undefined

\* the texts typed into the filter box
SearchTexts ==
  { <<>>,
    <<" ">>,
    <<"L", "o", "g", "i", "n">>,
    <<"4", "2">>,
    <<"7", " ", "4", "2">>,
    <<"x", "y", "z">>,
    <<"(">> }

\* lists of distinct ids of length at most n
RECURSIVE IdLists(_)
IdLists(n) ==
  IF n = 0 THEN {<<>>}
  ELSE LET shorter == IdLists(n - 1)
       IN shorter \cup {Append(l, id) : l \in {x \in shorter : Len(x) = n - 1},
                                        id \in IssueIds}

Range(f) == {f[x] : x \in DOMAIN f}
Distinct(l) == Cardinality(Range(l)) = Len(l)
IssueIdLists == {l \in IdLists(MaxIssueIds) : Distinct(l)}

\* the issue lists handed to IssueSearch.initializeVectors
IssueBatches == {<<Issue1>>, <<Issue2, Issue1>>}

\* the document lists handed to VectorSearch.initializeVectors directly
LongBatch(content) ==
  [k \in 1..(batchSize + 1) |->
     [id |-> IF k <= batchSize THEN 1 ELSE 2, content |-> content]]
DocBatches ==
  { <<>>,
    <<[id |-> 2, content |-> <<"a">>], [id |-> 1, content |-> <<"B", " ", " ", "b">>]>>,
    LongBatch(<<"i">>),
    LongBatch(<<"q">>) }

\* arguments of direct getSimilarityScore and VectorSearch.search calls
SimilarityIds == {1, 3}
SimilarityTerms == {<<>>, <<<<"a">>>>, <<<<"a">>, <<"q">>>>}
defaultTopK == 5
TopKs == {0, 1, defaultTopK}
TopKQueries == {<<"a">>}

(***************************************************************************)
(* State                                                                   *)
(***************************************************************************)
VARIABLES
  encoder,          \* VectorSearch._encoder: "undefined" or "ready"
  ctorInit,         \* the _initializeEncoder call of the constructor
  documentVectors,  \* VectorSearch._documentVectors, in insertion order
  ix,               \* the calls of initializeVectors, per caller
  clears,           \* calls of clearDocuments so far
  gs,               \* a direct call of getSimilarityScore
  tk,               \* a direct call of VectorSearch.search
  searchCall,       \* the call of IssueSearch.search
  results,          \* the Map that search builds and returns
  tasks,            \* the asynchronous forEach callbacks of search, per position
  previous,         \* the settled earlier call of search, when there is one
  scorer,           \* the last direct call of a SearchScorer function
  container,        \* issuesContainer: its children, the order filterIssues
                    \* used last, and the calls of filterIssues so far
  worker,           \* the service worker: its script, its life-cycle phase
                    \* and the position of its install / activate handler
  cacheStorage,     \* CacheStorage of the origin: the caches, by name
  fetchEvents,      \* the fetch events dispatched to the service worker
  userToReferral,   \* the KV namespace env.userToReferral of the tracker
  reply             \* the last request of the tracker and its Response

vsVars == <<encoder, ctorInit, documentVectors, ix>>
directVars == <<clears, gs, tk>>
isVars == <<searchCall, results, tasks>>
uiVars == <<previous, scorer, container>>
swVars == <<worker, cacheStorage, fetchEvents>>
trackerVars == <<userToReferral, reply>>
webVars == <<worker, cacheStorage, fetchEvents, userToReferral, reply>>
searchVars == <<encoder, ctorInit, documentVectors, ix, clears, gs, tk,
                searchCall, results, tasks, previous, scorer, container>>
vars == <<encoder, ctorInit, documentVectors, ix, clears, gs, tk,
          searchCall, results, tasks, previous, scorer, container,
          worker, cacheStorage, fetchEvents, userToReferral, reply>>

IdleIx == [pc |-> "idle", documents |-> <<>>, i |-> 0]
IdleSim == [pc |-> "idle", value |-> 0, error |-> "none", encoderCalls |-> 0]
IdleGs == [call |-> IdleSim, documentId |-> 0, queryTerms |-> <<>>,
           hadVector |-> FALSE]
IdleTk == [pc |-> "idle", query |-> <<>>, topK |-> 0, result |-> <<>>]
IdleSearch == [state |-> "idle", searchText |-> <<>>, issueIds |-> <<>>,
               searchTerms |-> <<>>, returnedKeys |-> {}]
NoRun == <<>>
\* the name of the cache of this version of the worker (line 1)
cacheName == "pwacache-v4"
\* the files the install handler caches (lines 2-12)
urlsToCache == <<"/", "/index.html", "/manifest.json", "/dist/src/home/home.js",
                 "/style/style.css", "/style/inverted-style.css",
                 "/style/fonts/ubiquity-nova-standard.woff", "/style/special.css",
                 "/favicon.svg">>
\* the two builds of the worker: static/progressive-web-app.js with
\* async / await, and the promise-chain script
Scripts == {"static", "chained"}
\* the worker script is parsed, no event has been dispatched to it yet
ParsedWorker == [script |-> "none", phase |-> "parsed", pc |-> "idle",
                 cacheNames |-> {}, deleting |-> {}, error |-> FALSE]
\* a cached response: whether it was ok, what stored it (an earlier
\* version, the install handler or a fetch event) and which fetch event
Entry(ok, by, event) == [ok |-> ok, by |-> by, event |-> event]
\* the key of a cache entry: the URL of a GET request
Key(path, search) == [path |-> path, search |-> search]
\* what earlier versions of the worker left in CacheStorage, oldest first
EarlierCaches ==
  <<[name |-> "pwacache-v2", entries |-> <<>>],
    [name |-> "pwacache-v3",
     entries |-> (Key("/", "") :> Entry(TRUE, "earlier", 0))]>>
\* no request has reached the tracker
NoReply == [method |-> "none", key |-> <<>>, value |-> <<>>, threw |-> FALSE,
            before |-> <<>>, status |-> 0, body |-> <<>>]
\* a child of issuesContainer: the data-issue-id of its first child, its
\* style.display, its data-relevance-score (in thousandths) and whether its
\* class list holds active
Child(issueId) == [issueId |-> issueId, display |-> "", relevance |-> Undefined,
                   active |-> FALSE]
\* the page as rendered: three issues, one of them (3) unknown to the task
\* manager, and a child without a data-issue-id
InitialContainer ==
  [children |-> <<Child(<<2>>), Child(<<1>>), Child(<<3>>), Child(Undefined)>>,
   sorted |-> <<>>, calls |-> 0]
NoCall == [fn |-> "none", title |-> <<>>, content |-> <<>>, searchTerms |-> <<>>,
           score |-> 0, matchDetails |-> EmptyMatchDetails]

\* the state after new IssueSearch(taskManager): the constructor of
\* VectorSearch has started _initializeEncoder, which awaits pipeline()
Init ==
  /\ encoder = "undefined"
  /\ ctorInit = "pending"
  /\ documentVectors = <<>>
  /\ ix = [c \in IndexCallers |-> IdleIx]
  /\ clears = 0
  /\ gs = IdleGs
  /\ tk = IdleTk
  /\ searchCall = IdleSearch
  /\ results = <<>>
  /\ tasks = <<>>
  /\ previous = NoRun
  /\ scorer = NoCall
  /\ container = InitialContainer
  /\ worker = ParsedWorker
  /\ cacheStorage = EarlierCaches
  /\ fetchEvents = <<>>
  /\ userToReferral = <<>>
  /\ reply = NoReply

(***************************************************************************)
(* VectorSearch: encoder life cycle and initializeVectors                  *)
(***************************************************************************)
\* pipeline() of the constructor call resolves: this._encoder is assigned
CtorInitResolved ==
  /\ ctorInit = "pending"
  /\ ctorInit' = "resolved"
  /\ encoder' = "ready"
  /\ UNCHANGED <<documentVectors, ix>>
  /\ UNCHANGED directVars /\ UNCHANGED isVars /\ UNCHANGED uiVars /\ UNCHANGED webVars

\* CtorInitRejected with a seeded fault: the rejection unsets the encoder
CtorInitRejectedResets ==
  /\ ctorInit = "pending"
  /\ ctorInit' = "rejected"
  /\ encoder' = "undefined"
  /\ UNCHANGED <<documentVectors, ix>>
  /\ UNCHANGED directVars /\ UNCHANGED isVars /\ UNCHANGED uiVars /\ UNCHANGED webVars

\* pipeline() of the constructor call rejects: logged by .catch(console.error)
CtorInitRejected ==
  /\ ctorInit = "pending"
  /\ ctorInit' = "rejected"
  /\ UNCHANGED <<encoder, documentVectors, ix>>
  /\ UNCHANGED directVars /\ UNCHANGED isVars /\ UNCHANGED uiVars /\ UNCHANGED webVars

\* VectorSearch.initializeVectors up to its first await
InitializeVectorsCall(documents) ==
  IF encoder = "undefined"
  THEN [pc |-> "awaitInit", documents |-> documents, i |-> 0]
  ELSE ChunkLoop(documents, 0, encoder)

\* a direct call of VectorSearch.initializeVectors
VSInitializeVectors(c, documents) ==
  /\ ix[c].pc = "idle"
  /\ \A b \in IndexCallers : b < c => ix[b].pc # "idle"
  /\ ix' = [ix EXCEPT ![c] = InitializeVectorsCall(documents)]
  /\ UNCHANGED <<encoder, ctorInit, documentVectors>>
  /\ UNCHANGED directVars /\ UNCHANGED isVars /\ UNCHANGED uiVars /\ UNCHANGED webVars

\* the documents IssueSearch.initializeVectors builds from the issues
IssueDocuments(issues) ==
  [k \in 1..Len(issues) |->
     [id |-> issues[k].id, content |-> getSearchableContent(issues[k])]]

\* IssueSearch.initializeVectors
ISInitializeVectors(c, issues) ==
  /\ ix[c].pc = "idle"
  /\ \A b \in IndexCallers : b < c => ix[b].pc # "idle"
  /\ ix' = [ix EXCEPT ![c] = InitializeVectorsCall(IssueDocuments(issues))]
  /\ UNCHANGED <<encoder, ctorInit, documentVectors>>
  /\ UNCHANGED directVars /\ UNCHANGED isVars /\ UNCHANGED uiVars /\ UNCHANGED webVars

\* the pipeline() awaited by initializeVectors resolves (lines 75, 86)
IxInitResolved(c) ==
  /\ ix[c].pc = "awaitInit"
  /\ encoder' = "ready"
  /\ ix' = [ix EXCEPT ![c] = ChunkLoop(ix[c].documents, 0, "ready")]
  /\ UNCHANGED <<ctorInit, documentVectors>>
  /\ UNCHANGED directVars /\ UNCHANGED isVars /\ UNCHANGED uiVars /\ UNCHANGED webVars

\* the pipeline() awaited by initializeVectors rejects: the call rejects
IxInitRejected(c) ==
  /\ ix[c].pc = "awaitInit"
  /\ ix' = [ix EXCEPT ![c].pc = "rejected"]
  /\ UNCHANGED <<encoder, ctorInit, documentVectors>>
  /\ UNCHANGED directVars /\ UNCHANGED isVars /\ UNCHANGED uiVars /\ UNCHANGED webVars

\* the embeddings of one chunk arrive: store them, go on with the next chunk
IxEncoderResolved(c) ==
  /\ ix[c].pc = "awaitEncoder"
  /\ documentVectors' = StoreBatch(documentVectors, BatchAt(ix[c].documents, ix[c].i))
  /\ ix' = [ix EXCEPT ![c] = ChunkLoop(ix[c].documents, ix[c].i + batchSize, encoder)]
  /\ UNCHANGED <<encoder, ctorInit>>
  /\ UNCHANGED directVars /\ UNCHANGED isVars /\ UNCHANGED uiVars /\ UNCHANGED webVars

\* the encoder call of one chunk rejects: the call rejects
IxEncoderRejected(c) ==
  /\ ix[c].pc = "awaitEncoder"
  /\ ix' = [ix EXCEPT ![c].pc = "rejected"]
  /\ UNCHANGED <<encoder, ctorInit, documentVectors>>
  /\ UNCHANGED directVars /\ UNCHANGED isVars /\ UNCHANGED uiVars /\ UNCHANGED webVars

\* VectorSearch.clearDocuments
ClearDocuments ==
  /\ clears < MaxClears
  /\ clears' = clears + 1
  /\ documentVectors' = <<>>
  /\ UNCHANGED <<encoder, ctorInit, ix, gs, tk>>
  /\ UNCHANGED isVars /\ UNCHANGED uiVars /\ UNCHANGED webVars


(***************************************************************************)
(* VectorSearch: direct calls of getSimilarityScore and search             *)
(***************************************************************************)
\* getSimilarityScore(documentId, queryTerms) is called
GetSimilarityScore(documentId, queryTerms) ==
  /\ gs.call.pc = "idle"
  /\ gs' = [call |-> SimilarityCall(documentVectors, encoder, documentId, queryTerms),
            documentId |-> documentId, queryTerms |-> queryTerms,
            hadVector |-> MapHas(documentVectors, documentId)]
  /\ UNCHANGED <<clears, tk>>
  /\ UNCHANGED vsVars /\ UNCHANGED isVars /\ UNCHANGED uiVars /\ UNCHANGED webVars

\* Promise.all of the term embeddings resolves
GsEncoderResolved ==
  /\ gs.call.pc = "awaitEncoder"
  /\ gs' = [gs EXCEPT !.call =
              SimilarityFinish(documentVectors, gs.call, gs.documentId, gs.queryTerms)]
  /\ UNCHANGED <<clears, tk>>
  /\ UNCHANGED vsVars /\ UNCHANGED isVars /\ UNCHANGED uiVars /\ UNCHANGED webVars

\* an encoder call of getSimilarityScore rejects
GsEncoderRejected ==
  /\ gs.call.pc = "awaitEncoder"
  /\ gs' = [gs EXCEPT !.call = SimilarityEncoderFailed(gs.call)]
  /\ UNCHANGED <<clears, tk>>
  /\ UNCHANGED vsVars /\ UNCHANGED isVars /\ UNCHANGED uiVars /\ UNCHANGED webVars

\* VectorSearch.search up to its await (lines 112-122)
TopKCall(enc, query, topK) ==
  [pc |-> IF enc = "undefined" THEN "rejected" ELSE "awaitEncoder",
   query |-> query, topK |-> topK, result |-> <<>>]

\* VectorSearch.search(query, topK) is called
VSSearch(query, topK) ==
  /\ tk.pc = "idle"
  /\ tk' = TopKCall(encoder, query, topK)
  /\ UNCHANGED <<clears, gs>>
  /\ UNCHANGED vsVars /\ UNCHANGED isVars /\ UNCHANGED uiVars /\ UNCHANGED webVars

\* the query embedding arrives: score every stored vector, sort, slice
TkEncoderResolved ==
  /\ tk.pc = "awaitEncoder"
  /\ tk' = [tk EXCEPT !.pc = "resolved",
                      !.result = TopKResult(documentVectors, tk.query, tk.topK)]
  /\ UNCHANGED <<clears, gs>>
  /\ UNCHANGED vsVars /\ UNCHANGED isVars /\ UNCHANGED uiVars /\ UNCHANGED webVars

\* the encoder call of VectorSearch.search rejects
TkEncoderRejected ==
  /\ tk.pc = "awaitEncoder"
  /\ tk' = [tk EXCEPT !.pc = "rejected"]
  /\ UNCHANGED <<clears, gs>>
  /\ UNCHANGED vsVars /\ UNCHANGED isVars /\ UNCHANGED uiVars /\ UNCHANGED webVars

(***************************************************************************)
(* IssueSearch.search and its asynchronous callbacks                       *)
(***************************************************************************)
\* Map.prototype.set on the result map (a function from ids to results)
Put(f, key, value) ==
  [x \in (DOMAIN f) \cup {key} |-> IF x = key THEN value ELSE f[x]]

\* RelevanceScores of every stored record for every term list a search text
\* of the model yields (the scorers are pure: each value is computed once)
SearchTermLists == {preprocessSearchTerms(Trim(ToLower(t))) : t \in SearchTexts}
ScoreTable ==
  [searchTerms \in SearchTermLists |->
     [issue \in Issues |-> RelevanceScores(issue, searchTerms)]]

\* one forEach callback of search, run up to its first await (lines 49-56):
\* acc holds the result map and the callbacks started so far.  The callback
\* is an async function: an exception raised inside it rejects its promise
\* and never reaches forEach
SearchStep(acc, issueId, searchTerms, m, enc) ==
  LET issue == getGitHubIssueById(issueId)
      scores == ScoreTable[searchTerms][issue[1]]
  IN IF issue = Undefined
     THEN [acc EXCEPT
             !.results = Put(@, issueId, createEmptyResult(FALSE)),
             !.tasks = Append(@, [pc |-> "returned", issueId |-> issueId,
                                  sim |-> IdleSim, at |-> 0])]
     ELSE IF scores.threw
     THEN [acc EXCEPT
             !.tasks = Append(@, [pc |-> "rejected", issueId |-> issueId,
                                  sim |-> IdleSim, at |-> 0])]
     ELSE [acc EXCEPT
             !.tasks = Append(@, [pc |-> "awaitSimilarity", issueId |-> issueId,
                                  sim |-> SimilarityCall(m, enc, issue[1].id,
                                                         searchTerms),
                                  at |-> 0])]

\* issueIds.forEach(async issueId => ...)
RECURSIVE ForEachIssue(_, _, _, _, _)
ForEachIssue(acc, issueIds, searchTerms, m, enc) ==
  IF issueIds = <<>> THEN acc
  ELSE ForEachIssue(SearchStep(acc, Head(issueIds), searchTerms, m, enc),
                    Tail(issueIds), searchTerms, m, enc)

\* FilterText with a seeded fault: the trim is missing
FilterTextNoTrim(searchText) == ToLower(searchText)

\* searchText.toLowerCase().trim()
FilterText(searchText) == Trim(ToLower(searchText))

\* the empty-query branch of search (lines 42-45)
EmptyQueryResults(issueIds) ==
  [id \in Range(issueIds) |-> createEmptyResult(TRUE)]

\* IssueSearch.search(searchText, issueIds), from the call to the return:
\* the map it returns, the callbacks it has started and the record of the
\* call
SearchReturns(searchText, issueIds) ==
  LET filterText == FilterText(searchText)
      searchTerms == preprocessSearchTerms(filterText)
      end == ForEachIssue([results |-> <<>>, tasks |-> <<>>],
                          issueIds, searchTerms, documentVectors, encoder)
  IN IF filterText = <<>>
     THEN /\ results' = EmptyQueryResults(issueIds)
          /\ tasks' = <<>>
          /\ searchCall' = [state |-> "returned", searchText |-> searchText,
                            issueIds |-> issueIds, searchTerms |-> <<>>,
                            returnedKeys |-> Range(issueIds)]
     ELSE /\ results' = end.results
          /\ tasks' = end.tasks
          /\ searchCall' = [state |-> "returned",
                            searchText |-> searchText, issueIds |-> issueIds,
                            searchTerms |-> searchTerms,
                            returnedKeys |-> DOMAIN end.results]

\* the first call of IssueSearch.search
Search(searchText, issueIds) ==
  /\ searchCall.state = "idle"
  /\ SearchReturns(searchText, issueIds)
  /\ UNCHANGED vsVars /\ UNCHANGED directVars /\ UNCHANGED uiVars /\ UNCHANGED webVars

\* every callback of the current call has run to its end
Settled == \A k \in DOMAIN tasks : tasks[k].pc # "awaitSimilarity"

\* calls of filterIssues in one behaviour
MaxFilterCalls == 2

\* the values of the text box
FilterTexts == {<<>>, <<" ">>, <<"L", "o", "g", "i", "n">>, <<"x", "y", "z">>}

\* Number.prototype.toFixed(3) of a weighted total, in thousandths
ToFixed3(score) == (score + (10 * Scale) \div 2000) \div ((10 * Scale) \div 1000)

\* parseFloat(a.getAttribute(data-relevance-score) || "0"), in thousandths
ParsedRelevance(child) == IF child.relevance = Undefined THEN 0 ELSE child.relevance[1]

\* the ids read from the children that carry a data-issue-id (lines 10-13)
RECURSIVE ContainerIds(_)
ContainerIds(children) ==
  IF children = <<>> THEN <<>>
  ELSE (IF Head(children).issueId = Undefined THEN <<>> ELSE Head(children).issueId)
       \o ContainerIds(Tail(children))

\* issues.sort(...) of lines 18-23: the positions of the children in
\* descending order of their data-relevance-score, ties in container order
SortedChildren(children) ==
  LET keyed == [k \in 1..Len(children) |->
                  [id |-> k, score |-> ParsedRelevance(children[k])]]
      sorted == SortByScore(keyed)
  IN [k \in 1..Len(sorted) |-> sorted[k].id]

\* the body of the forEach of lines 24-34 for one child
ShowChild(child, searchResults) ==
  IF child.issueId = Undefined THEN [child EXCEPT !.active = TRUE]
  ELSE IF child.issueId[1] \notin DOMAIN searchResults
  THEN [child EXCEPT !.active = TRUE]
  ELSE LET result == searchResults[child.issueId[1]]
       IN [child EXCEPT !.active = TRUE,
                        !.display = IF result.visible THEN "block" ELSE "none",
                        !.relevance = <<ToFixed3(result.score)>>]

\* filterIssues(textBox, issuesContainer) with textBox.value = text; called
\* when the callbacks of the call before have settled
FilterIssues(text) ==
  /\ container.calls < MaxFilterCalls
  /\ searchCall.state = "idle" \/ Settled
  /\ LET filterText == ToLower(text)
         children == container.children
     IN /\ SearchReturns(filterText, ContainerIds(children))
        /\ container' =
             IF filterText = <<>>
             THEN [container EXCEPT !.calls = @ + 1]
             ELSE [children |-> [k \in 1..Len(children) |->
                                   ShowChild(children[k], results')],
                   sorted |-> SortedChildren(children),
                   calls |-> container.calls + 1]
  /\ UNCHANGED <<previous, scorer>> /\ UNCHANGED webVars
  /\ UNCHANGED vsVars /\ UNCHANGED directVars

\* what is kept of a call once the next one is made
Snapshot == [searchCall |-> searchCall, results |-> results, tasks |-> tasks,
             documentVectors |-> documentVectors]

\* search is called a second time with the arguments of the first call,
\* after the callbacks of the first call have settled
SearchAgain ==
  /\ searchCall.state = "returned"
  /\ Settled
  /\ previous = NoRun
  /\ previous' = <<Snapshot>>
  /\ SearchReturns(searchCall.searchText, searchCall.issueIds)
  /\ UNCHANGED <<scorer, container>> /\ UNCHANGED webVars
  /\ UNCHANGED vsVars /\ UNCHANGED directVars

\* the term embeddings awaited by getSimilarityScore of callback k arrive
TaskEncoderResolved(k) ==
  /\ k \in DOMAIN tasks
  /\ tasks[k].pc = "awaitSimilarity"
  /\ tasks[k].sim.pc = "awaitEncoder"
  /\ tasks' = [tasks EXCEPT ![k].sim =
                 SimilarityFinish(documentVectors, tasks[k].sim, tasks[k].issueId,
                                  searchCall.searchTerms)]
  /\ UNCHANGED <<searchCall, results>>
  /\ UNCHANGED vsVars /\ UNCHANGED directVars /\ UNCHANGED uiVars /\ UNCHANGED webVars

\* an encoder call of getSimilarityScore of callback k rejects
TaskEncoderRejected(k) ==
  /\ k \in DOMAIN tasks
  /\ tasks[k].pc = "awaitSimilarity"
  /\ tasks[k].sim.pc = "awaitEncoder"
  /\ tasks' = [tasks EXCEPT ![k].sim = SimilarityEncoderFailed(tasks[k].sim)]
  /\ UNCHANGED <<searchCall, results>>
  /\ UNCHANGED vsVars /\ UNCHANGED directVars /\ UNCHANGED uiVars /\ UNCHANGED webVars

\* the callbacks that have resumed so far
Resumed == {j \in DOMAIN tasks : tasks[j].at > 0}

\* TaskScores with a seeded fault: the callbacks share one slot for their
\* scores, so a resuming callback takes those of the earliest pending one
TaskScoresShared(k) ==
  LET pending == {j \in DOMAIN tasks : tasks[j].pc = "awaitSimilarity"}
      first == CHOOSE j \in pending : \A i \in pending : j <= i
  IN ScoreTable[searchCall.searchTerms][getGitHubIssueById(tasks[first].issueId)[1]]

\* the four sub-scores callback k computed before its await
TaskScores(k) ==
  ScoreTable[searchCall.searchTerms][getGitHubIssueById(tasks[k].issueId)[1]]

\* callback k resumes after await getSimilarityScore (lines 89-105, 56-57):
\* a resolved score yields results.set; a rejection rejects the callback
TaskResume(k) ==
  /\ k \in DOMAIN tasks
  /\ tasks[k].pc = "awaitSimilarity"
  /\ tasks[k].sim.pc \in {"resolved", "rejected"}
  /\ IF tasks[k].sim.pc = "resolved"
     THEN /\ results' = Put(results, tasks[k].issueId,
                            RelevanceResult(TaskScores(k), tasks[k].sim.value))
          /\ tasks' = [tasks EXCEPT ![k].pc = "done",
                                    ![k].at = Cardinality(Resumed) + 1]
     ELSE /\ results' = results
          /\ tasks' = [tasks EXCEPT ![k].pc = "rejected",
                                    ![k].at = Cardinality(Resumed) + 1]
  /\ UNCHANGED searchCall
  /\ UNCHANGED vsVars /\ UNCHANGED directVars /\ UNCHANGED uiVars /\ UNCHANGED webVars

(***************************************************************************)
(* Specifications                                                          *)
(***************************************************************************)
\* an IssueSearch instance: index build and search, interleaved
Next ==
  \/ CtorInitResolved
  \/ CtorInitRejected
  \/ \E c \in BuildCallers, issues \in IssueBatches : ISInitializeVectors(c, issues)
  \/ \E c \in BuildCallers : IxInitResolved(c)
  \/ \E c \in BuildCallers : IxInitRejected(c)
  \/ \E c \in BuildCallers : IxEncoderResolved(c)
  \/ \E c \in BuildCallers : IxEncoderRejected(c)
  \/ \E searchText \in SearchTexts, issueIds \in IssueIdLists :
       Search(searchText, issueIds)
  \/ \E k \in 1..MaxIssueIds : TaskEncoderResolved(k)
  \/ \E k \in 1..MaxIssueIds : TaskEncoderRejected(k)
  \/ \E k \in 1..MaxIssueIds : TaskResume(k)

Spec == Init /\ [][Next]_vars

\* a VectorSearch instance with one indexing client, clearDocuments and a
\* client calling getSimilarityScore
NextSim ==
  \/ CtorInitResolved
  \/ CtorInitRejected
  \/ \E documents \in DocBatches : VSInitializeVectors(1, documents)
  \/ IxInitResolved(1)
  \/ IxInitRejected(1)
  \/ IxEncoderResolved(1)
  \/ IxEncoderRejected(1)
  \/ ClearDocuments
  \/ \E documentId \in SimilarityIds, queryTerms \in SimilarityTerms :
       GetSimilarityScore(documentId, queryTerms)
  \/ GsEncoderResolved
  \/ GsEncoderRejected

SpecSim == Init /\ [][NextSim]_vars

\* a VectorSearch instance with overlapping initializeVectors calls and a
\* client calling search
NextVS ==
  \/ CtorInitResolved
  \/ CtorInitRejected
  \/ \E c \in DirectCallers, documents \in DocBatches : VSInitializeVectors(c, documents)
  \/ \E c \in DirectCallers : IxInitResolved(c)
  \/ \E c \in DirectCallers : IxInitRejected(c)
  \/ \E c \in DirectCallers : IxEncoderResolved(c)
  \/ \E c \in DirectCallers : IxEncoderRejected(c)
  \/ \E query \in TopKQueries, topK \in TopKs : VSSearch(query, topK)
  \/ TkEncoderResolved
  \/ TkEncoderRejected

SpecVS == Init /\ [][NextVS]_vars


\* documents.slice(i, i + size) of a chunk loop run with chunk size size
SliceAt(documents, i, size) == SubSeq(documents, i + 1, Min(i + size, Len(documents)))

\* the chunk loop of initializeVectors run alone from index i with chunk
\* size size in place of the literal of the code
RECURSIVE IndexInChunks(_, _, _, _)
IndexInChunks(m, documents, i, size) ==
  IF i >= Len(documents) \/ Len(m) < 0 THEN m
  ELSE IndexInChunks(StoreBatch(m, SliceAt(documents, i, size)), documents,
                     i + size, size)

\* documents of the two ids with short contents, for the runs of one caller
ChunkDocs == {[id |-> id, content |-> content] : id \in {1, 2},
                                                   content \in {<<"a">>, <<"q">>}}
\* a list of batchSize + 1 documents whose only document of id 2 is the last
\* of the first chunk, and whose last document gives id 1 another vector
ChunkEdgeBatch ==
  [k \in 1..(batchSize + 1) |->
     [id |-> IF k = batchSize THEN 2 ELSE 1,
      content |-> IF k <= batchSize THEN <<"a">> ELSE <<"q">>]]
ChunkBatches ==
  {<<>>} \cup {<<d>> : d \in ChunkDocs}
         \cup {<<d, e>> : d \in ChunkDocs, e \in ChunkDocs}
         \cup {<<d, e, f>> : d \in ChunkDocs, e \in ChunkDocs, f \in ChunkDocs}
         \cup {ChunkEdgeBatch, LongBatch(<<"i">>)}

\* a VectorSearch instance with one client that calls initializeVectors once
NextIndex ==
  \/ CtorInitResolved
  \/ CtorInitRejected
  \/ \E documents \in ChunkBatches : VSInitializeVectors(1, documents)
  \/ IxInitResolved(1)
  \/ IxInitRejected(1)
  \/ IxEncoderResolved(1)
  \/ IxEncoderRejected(1)

SpecIndex == Init /\ [][NextIndex]_vars


\* no initializeVectors call is in flight
IndexQuiet == \A c \in IndexCallers : ix[c].pc \notin {"awaitInit", "awaitEncoder"}

\* argument lists of the repeated call
TwiceTexts == {<<"L", "o", "g", "i", "n">>, <<"4", "2">>, <<"(">>, <<" ">>}
TwiceIdLists == {<<1, 2>>, <<2, 1>>, <<3, 1>>, <<2>>, <<2, 3, 1>>}

\* an IssueSearch instance whose index is built before the first search and
\* left alone afterwards, and whose client calls search twice with the same
\* arguments
NextTwice ==
  \/ CtorInitResolved
  \/ CtorInitRejected
  \/ \E issues \in IssueBatches :
       searchCall.state = "idle" /\ ISInitializeVectors(1, issues)
  \/ IxInitResolved(1)
  \/ IxInitRejected(1)
  \/ IxEncoderResolved(1)
  \/ IxEncoderRejected(1)
  \/ \E searchText \in TwiceTexts, issueIds \in TwiceIdLists :
       IndexQuiet /\ Search(searchText, issueIds)
  \/ SearchAgain
  \/ \E k \in 1..3 : TaskEncoderResolved(k)
  \/ \E k \in 1..3 : TaskEncoderRejected(k)
  \/ \E k \in 1..3 : TaskResume(k)

SpecTwice == Init /\ [][NextTwice]_vars


\* lists of at most three elements of a set
UpToThree(S) ==
  {<<>>} \cup {<<a>> : a \in S} \cup {<<a, b>> : a \in S, b \in S}
         \cup {<<a, b, c>> : a \in S, b \in S, c \in S}

\* contents and terms for direct calls of calculateFuzzyScore: a term at
\* distance 3 of a word of 10 letters has similarity 0.7, at distance 2 0.8
FuzzyContents ==
  { <<>>,
    <<"a", "b", "c", "d", "e", "f", "g", "h", "i", "j">>,
    <<"L", "o", "g", "i", "n", " ", "l", "o", "g", "i", "n", "s", ",", " ",
      "l", "o", "g", "o", "n", " ", "o", "n">>,
    <<"a", "b", "c", "d", "e", "f", "g", "x", "x", "x", " ",
      "a", "b", "c", "d", "e", "f", "g", "h", "i", "j">> }
FuzzyTerms ==
  { <<"a", "b", "c", "d", "e", "f", "g", "x", "y", "z">>,
    <<"a", "b", "c", "d", "e", "f", "g", "h", "x", "y">>,
    <<"l", "o", "g", "i", "n">>,
    <<"l", "o", "g", "o", "n">>,
    <<"l", "o", "g", "i", "n", "s">>,
    <<"x", "y", "z">> }

\* a direct call of SearchScorer.calculateFuzzyScore with a fresh accumulator
CalculateFuzzyScore(content, searchTerms) ==
  /\ scorer = NoCall
  /\ LET out == calculateFuzzyScore(content, searchTerms, EmptyMatchDetails)
     IN scorer' = [fn |-> "fuzzy", title |-> <<>>, content |-> content,
                   searchTerms |-> searchTerms, score |-> out.score,
                   matchDetails |-> out.matchDetails]
  /\ UNCHANGED <<previous, container>> /\ UNCHANGED webVars
  /\ UNCHANGED vsVars /\ UNCHANGED directVars /\ UNCHANGED isVars

\* titles and terms for direct calls of calculateTitleScore
ScorerTitles ==
  { <<"L", "o", "g", "i", "n", " ", "f", "a", "i", "l", "s", " ", "o", "n", " ",
      "S", "a", "f", "a", "r", "i">>,
    <<"S", "a", "f", "a", "r", "i">>,
    <<"o", "n">> }
TitleTerms ==
  { <<"l", "o", "g", "i", "n">>, <<"l", "o", "g">>, <<"f", "a", "i", "l", "s">>,
    <<"o", "n">>, <<"s", "a", "f", "a", "r", "i">>, <<"x", "y", "z">> }

\* a direct call of SearchScorer.calculateTitleScore with a fresh accumulator
CalculateTitleScore(title, searchTerms) ==
  /\ scorer = NoCall
  /\ LET out == calculateTitleScore([title |-> title], searchTerms, EmptyMatchDetails)
     IN scorer' = [fn |-> "title", title |-> title, content |-> <<>>,
                   searchTerms |-> searchTerms, score |-> out.score,
                   matchDetails |-> out.matchDetails]
  /\ UNCHANGED <<previous, container>> /\ UNCHANGED webVars
  /\ UNCHANGED vsVars /\ UNCHANGED directVars /\ UNCHANGED isVars

\* a client that makes one direct call of a scoring function
NextScorer ==
  \/ \E title \in ScorerTitles, searchTerms \in UpToThree(TitleTerms) :
       CalculateTitleScore(title, searchTerms)
  \/ \E content \in FuzzyContents, searchTerms \in UpToThree(FuzzyTerms) :
       CalculateFuzzyScore(content, searchTerms)

SpecScorer == Init /\ [][NextScorer]_vars

(***************************************************************************)


\* the page: an IssueSearch instance whose index is built once and a text
\* box whose changes call filterIssues
NextFilter ==
  \/ CtorInitResolved
  \/ CtorInitRejected
  \/ \E issues \in IssueBatches : ISInitializeVectors(1, issues)
  \/ IxInitResolved(1)
  \/ IxInitRejected(1)
  \/ IxEncoderResolved(1)
  \/ IxEncoderRejected(1)
  \/ \E text \in FilterTexts : FilterIssues(text)
  \/ \E k \in 1..3 : TaskEncoderResolved(k)
  \/ \E k \in 1..3 : TaskEncoderRejected(k)
  \/ \E k \in 1..3 : TaskResume(k)

SpecFilter == Init /\ [][NextFilter]_vars


(***************************************************************************)
(* The service worker: install, activate and fetch handlers                *)
(***************************************************************************)
\* fetch events in one behaviour
MaxFetchEvents == 2

Request(scheme, path, search, method) ==
  [scheme |-> scheme, path |-> path, search |-> search, method |-> method]

\* the requests the pages and the browser make
FetchRequests ==
  {Request("https:", "/", "", "GET"),
   Request("https:", "/data", "", "GET"),
   Request("https:", "/", "?v=1", "GET"),
   Request("https:", "/data", "", "POST"),
   Request("chrome-extension:", "/", "", "GET")}

\* CacheStorage.keys()
CacheNames(cs) == {cs[k].name : k \in 1..Len(cs)}

\* CacheStorage.open(name): the cache is created when there is none
CacheOpen(cs, name) ==
  IF name \in CacheNames(cs) THEN cs
  ELSE Append(cs, [name |-> name, entries |-> <<>>])

\* Cache.put(request, response) on the cache opened under name
CachePut(cs, name, key, entry) ==
  [k \in 1..Len(cs) |->
     IF cs[k].name = name
     THEN [cs[k] EXCEPT !.entries = Put(@, key, entry)]
     ELSE cs[k]]

\* CacheStorage.delete(name)
CacheDelete(cs, name) == SelectSeq(cs, LAMBDA c : c.name # name)

\* Cache.addAll(urlsToCache) once every response has arrived ok
RECURSIVE AddAllFrom(_, _)
AddAllFrom(entries, k) ==
  IF k > Len(urlsToCache) THEN entries
  ELSE AddAllFrom(Put(entries, Key(urlsToCache[k], ""), Entry(TRUE, "install", 0)),
                  k + 1)
CacheAddAll(cs, name) ==
  [k \in 1..Len(cs) |->
     IF cs[k].name = name
     THEN [cs[k] EXCEPT !.entries = AddAllFrom(@, 1)]
     ELSE cs[k]]

\* CacheStorage.match(request): the entry of the first cache, in creation
\* order, that holds the URL of a GET request; <<>> stands for undefined
RECURSIVE MatchFrom(_, _, _)
MatchFrom(cs, request, k) ==
  IF k > Len(cs) \/ request.method # "GET" THEN Undefined
  ELSE IF Key(request.path, request.search) \in DOMAIN cs[k].entries
  THEN <<cs[k].entries[Key(request.path, request.search)]>>
  ELSE MatchFrom(cs, request, k + 1)
CacheMatch(cs, request) == MatchFrom(cs, request, 1)

\* the install event is dispatched to a freshly parsed script: waitUntil,
\* then caches.open(cacheName) is awaited
InstallEvent(script) ==
  /\ worker.phase = "parsed"
  /\ worker' = [worker EXCEPT !.script = script, !.phase = "installing",
                              !.pc = "awaitOpen"]
  /\ UNCHANGED <<cacheStorage, fetchEvents>>
  /\ UNCHANGED searchVars /\ UNCHANGED trackerVars

\* caches.open of the install handler resolves: cache.addAll is awaited
InstallOpenResolved ==
  /\ worker.phase = "installing" /\ worker.pc = "awaitOpen"
  /\ cacheStorage' = CacheOpen(cacheStorage, cacheName)
  /\ worker' = [worker EXCEPT !.pc = "awaitAddAll"]
  /\ UNCHANGED fetchEvents
  /\ UNCHANGED searchVars /\ UNCHANGED trackerVars

\* caches.open of the install handler rejects: logged, the worker installs
InstallOpenRejected ==
  /\ worker.phase = "installing" /\ worker.pc = "awaitOpen"
  /\ worker' = [worker EXCEPT !.phase = "installed", !.pc = "idle"]
  /\ UNCHANGED <<cacheStorage, fetchEvents>>
  /\ UNCHANGED searchVars /\ UNCHANGED trackerVars

\* cache.addAll resolves: every file of urlsToCache is stored
InstallAddAllResolved ==
  /\ worker.phase = "installing" /\ worker.pc = "awaitAddAll"
  /\ cacheStorage' = CacheAddAll(cacheStorage, cacheName)
  /\ worker' = [worker EXCEPT !.phase = "installed", !.pc = "idle"]
  /\ UNCHANGED fetchEvents
  /\ UNCHANGED searchVars /\ UNCHANGED trackerVars

\* cache.addAll rejects (a file failed or was not ok): nothing is stored
InstallAddAllRejected ==
  /\ worker.phase = "installing" /\ worker.pc = "awaitAddAll"
  /\ worker' = [worker EXCEPT !.phase = "installed", !.pc = "idle"]
  /\ UNCHANGED <<cacheStorage, fetchEvents>>
  /\ UNCHANGED searchVars /\ UNCHANGED trackerVars

\* StaleCaches with a seeded fault: the comparison is inverted
StaleCachesInverted(cacheNames) == {name \in cacheNames : name = cacheName}

\* the names for which the map callback of the activate handler calls
\* caches.delete
StaleCaches(cacheNames) == {name \in cacheNames : name # cacheName}

\* the activate event is dispatched: waitUntil, caches.keys() is awaited
ActivateEvent ==
  /\ worker.phase = "installed"
  /\ worker' = [worker EXCEPT !.phase = "activating", !.pc = "awaitKeys"]
  /\ UNCHANGED <<cacheStorage, fetchEvents>>
  /\ UNCHANGED searchVars /\ UNCHANGED trackerVars

\* caches.keys() resolves: caches.delete is called for every stale name and
\* Promise.all of the deletions is awaited
ActivateKeysResolved ==
  /\ worker.phase = "activating" /\ worker.pc = "awaitKeys"
  /\ worker' = [worker EXCEPT !.pc = "awaitDeletes",
                              !.cacheNames = CacheNames(cacheStorage),
                              !.deleting = StaleCaches(CacheNames(cacheStorage))]
  /\ UNCHANGED <<cacheStorage, fetchEvents>>
  /\ UNCHANGED searchVars /\ UNCHANGED trackerVars

\* caches.keys() rejects: logged, the worker activates
ActivateKeysRejected ==
  /\ worker.phase = "activating" /\ worker.pc = "awaitKeys"
  /\ worker' = [worker EXCEPT !.phase = "activated", !.pc = "idle",
                              !.error = TRUE]
  /\ UNCHANGED <<cacheStorage, fetchEvents>>
  /\ UNCHANGED searchVars /\ UNCHANGED trackerVars

\* one caches.delete resolves
ActivateDeleteResolved(name) ==
  /\ name \in worker.deleting
  /\ cacheStorage' = CacheDelete(cacheStorage, name)
  /\ worker' = [worker EXCEPT !.deleting = @ \ {name}]
  /\ UNCHANGED fetchEvents
  /\ UNCHANGED searchVars /\ UNCHANGED trackerVars

\* one caches.delete rejects: Promise.all rejects at once, which is logged
\* and the worker activates; the other deletions go on
ActivateDeleteRejected(name) ==
  /\ name \in worker.deleting
  /\ worker' = IF worker.pc = "awaitDeletes"
               THEN [worker EXCEPT !.deleting = @ \ {name}, !.phase = "activated",
                                   !.pc = "idle", !.error = TRUE]
               ELSE [worker EXCEPT !.deleting = @ \ {name}]
  /\ UNCHANGED <<cacheStorage, fetchEvents>>
  /\ UNCHANGED searchVars /\ UNCHANGED trackerVars

\* every deletion has resolved: the activate handler completes without error
ActivateDone ==
  /\ worker.phase = "activating" /\ worker.pc = "awaitDeletes"
  /\ worker.deleting = {}
  /\ worker' = [worker EXCEPT !.phase = "activated", !.pc = "idle"]
  /\ UNCHANGED <<cacheStorage, fetchEvents>>
  /\ UNCHANGED searchVars /\ UNCHANGED trackerVars

\* the response handed to respondWith, when none was handed yet
Answer(event, with) ==
  IF event.answered = "none" THEN [event EXCEPT !.answered = with] ELSE event

\* the fetch listener up to its first await, for an active worker
FetchEvent(request) ==
  /\ worker.phase = "activated"
  /\ Len(fetchEvents) < MaxFetchEvents
  /\ fetchEvents' =
       Append(fetchEvents,
              [request |-> request,
               pc |-> IF request.scheme \notin {"http:", "https:"} THEN "ignored"
                      ELSE IF request.search # "" THEN "awaitBypass"
                      ELSE "awaitMatch",
               cached |-> Undefined, network |-> "none", answered |-> "none",
               wrote |-> FALSE])
  /\ UNCHANGED <<worker, cacheStorage>>
  /\ UNCHANGED searchVars /\ UNCHANGED trackerVars

\* fetch(event.request) of a request with a query string resolves
FetchBypassResolved(e, ok) ==
  /\ e \in DOMAIN fetchEvents
  /\ fetchEvents[e].pc = "awaitBypass"
  /\ fetchEvents' = [fetchEvents EXCEPT ![e] =
       [@ EXCEPT !.pc = "done", !.network = IF ok THEN "ok" ELSE "notOk",
                 !.answered = "network"]]
  /\ UNCHANGED <<worker, cacheStorage>>
  /\ UNCHANGED searchVars /\ UNCHANGED trackerVars

\* fetch(event.request) of a request with a query string rejects
FetchBypassRejected(e) ==
  /\ e \in DOMAIN fetchEvents
  /\ fetchEvents[e].pc = "awaitBypass"
  /\ fetchEvents' = [fetchEvents EXCEPT ![e] =
       [@ EXCEPT !.pc = "done", !.network = "failed",
                 !.answered = "networkError"]]
  /\ UNCHANGED <<worker, cacheStorage>>
  /\ UNCHANGED searchVars /\ UNCHANGED trackerVars

\* caches.match resolves: fetch is started, and a cached response is
\* handed to respondWith at once
FetchMatchResolved(e) ==
  /\ e \in DOMAIN fetchEvents
  /\ fetchEvents[e].pc = "awaitMatch"
  /\ LET cachedResponse == CacheMatch(cacheStorage, fetchEvents[e].request)
     IN fetchEvents' = [fetchEvents EXCEPT ![e] =
          [@ EXCEPT !.pc = "awaitNetwork", !.cached = cachedResponse,
                    !.answered = IF cachedResponse = Undefined THEN "none"
                                 ELSE "cache"]]
  /\ UNCHANGED <<worker, cacheStorage>>
  /\ UNCHANGED searchVars /\ UNCHANGED trackerVars

\* caches.match rejects: the static script answers 500, the chained one
\* lets the promise handed to respondWith reject
FetchMatchRejected(e) ==
  /\ e \in DOMAIN fetchEvents
  /\ fetchEvents[e].pc = "awaitMatch"
  /\ fetchEvents' = [fetchEvents EXCEPT ![e] =
       [@ EXCEPT !.pc = "done",
                 !.answered = IF worker.script = "static" THEN "error500"
                              ELSE "networkError"]]
  /\ UNCHANGED <<worker, cacheStorage>>
  /\ UNCHANGED searchVars /\ UNCHANGED trackerVars

\* ThenNetworkResponse with a seeded fault: the cache is updated whatever
\* the status
ThenNetworkResponseNoTest(script, event, ok) ==
  LET arrived == [event EXCEPT !.network = IF ok THEN "ok" ELSE "notOk"]
  IN IF script = "static"
     THEN [arrived EXCEPT !.pc = "awaitOpen"]
     ELSE [Answer(arrived, "network") EXCEPT !.pc = "awaitOpen"]

\* the then callback of fetch up to its first await: a response that is
\* not ok is returned as it is; for an ok one the static script awaits
\* caches.open before it returns, the chained one returns at once and
\* leaves the update to a promise of its own
ThenNetworkResponse(script, event, ok) ==
  LET arrived == [event EXCEPT !.network = IF ok THEN "ok" ELSE "notOk"]
  IN IF ~ok THEN [Answer(arrived, "network") EXCEPT !.pc = "done"]
     ELSE IF script = "static"
     THEN [arrived EXCEPT !.pc = "awaitOpen"]
     ELSE [Answer(arrived, "network") EXCEPT !.pc = "awaitOpen"]

\* fetch(event.request) resolves
FetchNetworkResolved(e, ok) ==
  /\ e \in DOMAIN fetchEvents
  /\ fetchEvents[e].pc = "awaitNetwork"
  /\ fetchEvents' = [fetchEvents EXCEPT ![e] =
       ThenNetworkResponse(worker.script, fetchEvents[e], ok)]
  /\ UNCHANGED <<worker, cacheStorage>>
  /\ UNCHANGED searchVars /\ UNCHANGED trackerVars

\* the catch callback of fetchPromise: cachedResponse, or a 503 response
CatchNetworkError(event) ==
  [Answer(event, "offline503") EXCEPT !.pc = "done"]

\* fetch(event.request) rejects
FetchNetworkRejected(e) ==
  /\ e \in DOMAIN fetchEvents
  /\ fetchEvents[e].pc = "awaitNetwork"
  /\ fetchEvents' = [fetchEvents EXCEPT ![e] =
       CatchNetworkError([@ EXCEPT !.network = "failed"])]
  /\ UNCHANGED <<worker, cacheStorage>>
  /\ UNCHANGED searchVars /\ UNCHANGED trackerVars

\* caches.open(cacheName) of the then callback resolves
FetchOpenResolved(e) ==
  /\ e \in DOMAIN fetchEvents
  /\ fetchEvents[e].pc = "awaitOpen"
  /\ cacheStorage' = CacheOpen(cacheStorage, cacheName)
  /\ fetchEvents' = [fetchEvents EXCEPT ![e].pc = "awaitPut"]
  /\ UNCHANGED worker
  /\ UNCHANGED searchVars /\ UNCHANGED trackerVars

\* a rejection inside the update of the cache: in the static script it
\* reaches the catch callback of fetchPromise, in the chained one it is
\* the rejection of a promise nobody holds
UpdateRejected(script, event) ==
  IF script = "static" THEN CatchNetworkError(event)
  ELSE [event EXCEPT !.pc = "done"]

\* caches.open(cacheName) of the then callback rejects
FetchOpenRejected(e) ==
  /\ e \in DOMAIN fetchEvents
  /\ fetchEvents[e].pc = "awaitOpen"
  /\ fetchEvents' = [fetchEvents EXCEPT ![e] = UpdateRejected(worker.script, @)]
  /\ UNCHANGED <<worker, cacheStorage>>
  /\ UNCHANGED searchVars /\ UNCHANGED trackerVars

\* cache.put(event.request, responseClone) resolves: the entry is written;
\* the static script returns the network response only now
FetchPutResolved(e) ==
  /\ e \in DOMAIN fetchEvents
  /\ fetchEvents[e].pc = "awaitPut"
  /\ fetchEvents[e].request.method = "GET"
  /\ cacheStorage' =
       CachePut(cacheStorage, cacheName,
                Key(fetchEvents[e].request.path, fetchEvents[e].request.search),
                Entry(fetchEvents[e].network = "ok", "fetch", e))
  /\ fetchEvents' = [fetchEvents EXCEPT ![e] =
       [Answer(@, "network") EXCEPT !.pc = "done", !.wrote = TRUE]]
  /\ UNCHANGED worker
  /\ UNCHANGED searchVars /\ UNCHANGED trackerVars

\* cache.put rejects: always for a request that is not a GET, and for a
\* GET when the storage refuses the entry
FetchPutRejected(e) ==
  /\ e \in DOMAIN fetchEvents
  /\ fetchEvents[e].pc = "awaitPut"
  /\ fetchEvents' = [fetchEvents EXCEPT ![e] = UpdateRejected(worker.script, @)]
  /\ UNCHANGED <<worker, cacheStorage>>
  /\ UNCHANGED searchVars /\ UNCHANGED trackerVars

FetchIds == 1..MaxFetchEvents
CacheNameSet == {"pwacache-v2", "pwacache-v3", "pwacache-v4"}

\* one service worker from its installation on, and the fetch events of
\* the pages it controls
NextWorker ==
  \/ \E script \in Scripts : InstallEvent(script)
  \/ InstallOpenResolved
  \/ InstallOpenRejected
  \/ InstallAddAllResolved
  \/ InstallAddAllRejected
  \/ ActivateEvent
  \/ ActivateKeysResolved
  \/ ActivateKeysRejected
  \/ \E name \in CacheNameSet : ActivateDeleteResolved(name)
  \/ \E name \in CacheNameSet : ActivateDeleteRejected(name)
  \/ ActivateDone
  \/ \E request \in FetchRequests : FetchEvent(request)
  \/ \E e \in FetchIds, ok \in BOOLEAN : FetchBypassResolved(e, ok)
  \/ \E e \in FetchIds : FetchBypassRejected(e)
  \/ \E e \in FetchIds : FetchMatchResolved(e)
  \/ \E e \in FetchIds : FetchMatchRejected(e)
  \/ \E e \in FetchIds, ok \in BOOLEAN : FetchNetworkResolved(e, ok)
  \/ \E e \in FetchIds : FetchNetworkRejected(e)
  \/ \E e \in FetchIds : FetchOpenResolved(e)
  \/ \E e \in FetchIds : FetchOpenRejected(e)
  \/ \E e \in FetchIds : FetchPutResolved(e)
  \/ \E e \in FetchIds : FetchPutRejected(e)

SpecWorker == Init /\ [][NextWorker]_vars

(***************************************************************************)
(* The tracker function: onRequest, handleSet, handleGet, handleList       *)
(***************************************************************************)
\* request.method
Methods == {"POST", "GET", "PUT", "DELETE"}

\* url.searchParams.get of key and of value: <<>> stands for null (the
\* parameter is absent), <<"">> for a parameter that is present and empty
KeyParams == {<<>>, <<"">>, <<"alice">>, <<"bob">>}
ValueParams == {<<>>, <<"">>, <<"r1">>, <<"r2">>}

\* the truthiness of a string | null
Truthy(param) == param # <<>> /\ param[1] # ""

\* a Response together with the namespace the handler leaves
Handled(status, body, store) == [status |-> status, body |-> body, store |-> store]

\* handleSet with a seeded fault: the value is not tested
handleSetKeyOnly(store, key, value) ==
  IF Truthy(key)
  THEN Handled(200, <<"added", key, value>>,
               Put(store, key[1], IF value = <<>> THEN "" ELSE value[1]))
  ELSE Handled(400, <<"Missing key or value">>, store)

\* handleSet(url, env) when the namespace does not throw
handleSet(store, key, value) ==
  IF Truthy(key) /\ Truthy(value)
  THEN Handled(200, <<"added", key, value>>, Put(store, key[1], value[1]))
  ELSE Handled(400, <<"Missing key or value">>, store)

\* env.userToReferral.get(key): <<>> stands for null
KvGet(store, key) == IF key \in DOMAIN store THEN <<store[key]>> ELSE <<>>

\* handleGet(key, env) when the namespace does not throw
handleGet(store, key) ==
  IF Truthy(KvGet(store, key))
  THEN Handled(200, <<"Value", key, KvGet(store, key)[1]>>, store)
  ELSE Handled(404, <<"No value found", key>>, store)

\* handleList(env) when the namespace does not throw: every pair, and the
\* default status of a Response
handleList(store) == Handled(200, <<"list", store>>, store)

\* whether the handler of the request calls the namespace at all
CallsNamespace(method, key, value) ==
  \/ method = "POST" /\ Truthy(key) /\ Truthy(value)
  \/ method = "GET"

\* the switch of onRequest inside its try, and its catch for a namespace
\* call that throws
Dispatch(store, method, key, value, throws) ==
  IF throws /\ CallsNamespace(method, key, value)
  THEN Handled(500, <<"Internal Server Error">>, store)
  ELSE IF method = "POST" THEN handleSet(store, key, value)
  ELSE IF method = "GET"
  THEN (IF key # <<>> THEN handleGet(store, key[1]) ELSE handleList(store))
  ELSE Handled(405, <<"Method Not Allowed">>, store)

\* onRequest(ctx): one request to the tracker, answered
OnRequest(method, key, value, throws) ==
  /\ reply' = [method |-> method, key |-> key, value |-> value,
               threw |-> throws /\ CallsNamespace(method, key, value),
               before |-> userToReferral,
               status |-> Dispatch(userToReferral, method, key, value, throws).status,
               body |-> Dispatch(userToReferral, method, key, value, throws).body]
  /\ userToReferral' = Dispatch(userToReferral, method, key, value, throws).store
  /\ UNCHANGED searchVars /\ UNCHANGED swVars

\* the requests that reach the tracker, one after the other
NextTracker ==
  \E method \in Methods, key \in KeyParams, value \in ValueParams,
     throws \in BOOLEAN :
    OnRequest(method, key, value, throws)

SpecTracker == Init /\ [][NextTracker]_vars

(***************************************************************************)
(* Properties                                                              *)
(***************************************************************************)
\* a search text that is empty after lowercasing and trimming
AllBlank(text) == \A i \in 1..Len(text) : IsSpace(text[i])

\* the requested id is held by no record
Unresolvable(issueId) == ~\E issue \in Issues : issue.id = issueId

Requested == Range(searchCall.issueIds)

\* C1: at the moment search returns for a non-empty query, the returned map
\* holds a result for every requested id
C1_ReturnedMapComplete ==
  (searchCall.state = "returned" /\ ~AllBlank(searchCall.searchText))
    => searchCall.returnedKeys = Requested

\* C2: in every state of the result map, a result that is not visible has
\* score 0, whichever of the two constructors built it
C2_InvisibleScoreZero ==
  \A id \in DOMAIN results : ~results[id].visible => results[id].score = 0

\* an invisible result of a scored record beside one of a missing record
C2_Witness ==
  /\ \E k \in DOMAIN tasks :
       /\ tasks[k].pc = "done"
       /\ ~results[tasks[k].issueId].visible
  /\ \E id \in DOMAIN results : Unresolvable(id) /\ ~results[id].visible

\* C3: for an empty query search returns a map holding, for every requested
\* id, a visible result of score 1, and starts no scoring callback (hence no
\* scorer and no encoder call), whatever the state of the index
C3_EmptyQueryBrowse ==
  (searchCall.state # "idle" /\ AllBlank(searchCall.searchText))
    => /\ searchCall.state = "returned"
       /\ searchCall.returnedKeys = Requested
       /\ DOMAIN results = Requested
       /\ \A id \in Requested :
            /\ results[id].visible
            /\ results[id].score = 10 * Scale
            /\ results[id].matchDetails = EmptyMatchDetails
       /\ tasks = <<>>

\* a blank query over an unresolvable and an indexed id, encoder ready
C3_Witness ==
  /\ searchCall.state = "returned"
  /\ searchCall.searchText = <<" ">>
  /\ \E id \in Requested : Unresolvable(id)
  /\ \E id \in Requested : MapHas(documentVectors, id)
  /\ encoder = "ready"

\* C4: when the batch holds an id that cannot be resolved, search returns
\* without throwing, that id has an invisible result of score 0 with empty
\* evidence, and once every callback of the batch has settled every other
\* requested id has its own result in the map
C4_MissingRecordContained ==
  (/\ searchCall.state # "idle"
   /\ ~AllBlank(searchCall.searchText)
   /\ \E id \in Requested : Unresolvable(id))
    => /\ searchCall.state = "returned"
       /\ \A id \in Requested :
            Unresolvable(id)
              => /\ id \in searchCall.returnedKeys
                 /\ id \in DOMAIN results
                 /\ ~results[id].visible
                 /\ results[id].score = 0
                 /\ results[id].matchDetails = EmptyMatchDetails
       /\ (\A k \in DOMAIN tasks : tasks[k].pc # "awaitSimilarity")
            => \A id \in Requested : id \in DOMAIN results

\* C5: when a callback has completed and any term of the query is numeric
\* and equals the number of the record, the result has numberMatch and is
\* visible
C5_AnyNumericTermMatches ==
  \A k \in DOMAIN tasks :
    LET issue == CHOOSE i \in Issues : i.id = tasks[k].issueId
    IN (/\ tasks[k].pc = "done"
        /\ \E t \in Range(searchCall.searchTerms) :
             IsNumeric(t) /\ t = NumToString(issue.number))
       => /\ results[tasks[k].issueId].matchDetails.numberMatch
          /\ results[tasks[k].issueId].visible

\* C6: a callback whose embedding signal failed has, once it resumed, still
\* stored a result for its record, with a vector contribution of 0
C6_EmbeddingFailureContained ==
  \A k \in DOMAIN tasks :
    (tasks[k].sim.pc = "rejected" /\ tasks[k].pc # "awaitSimilarity")
      => /\ tasks[k].issueId \in DOMAIN results
         /\ results[tasks[k].issueId].matchDetails.similarityScore = 0

\* C7: a call of getSimilarityScore for an id without a stored vector, or
\* with no terms, has resolved with 0 and made no encoder call, in every
\* state of the encoder
C7_FastReject ==
  (gs.call.pc # "idle" /\ (~gs.hadVector \/ gs.queryTerms = <<>>))
    => /\ gs.call.pc = "resolved"
       /\ gs.call.value = 0
       /\ gs.call.encoderCalls = 0

\* a never-indexed id asked for while the encoder is not initialized
C7_Witness ==
  /\ gs.call.pc = "resolved"
  /\ ~gs.hadVector
  /\ gs.queryTerms # <<>>
  /\ encoder = "undefined"

\* C8: getSimilarityScore never ends in the hard error raised for an id
\* that has no stored vector
C8_MissingVectorIsZero == gs.call.error # "DocumentNotFound"

\* the id -> vector mapping, without the insertion order
Mapping(m) == [id \in MapKeys(m) |-> MapGet(m, id)]

\* the mapping left by running the batches first and second one after the other
Serial(first, second) == Mapping(StoreBatch(StoreBatch(<<>>, first), second))

\* C9: when two overlapping initializeVectors calls have both resolved, the
\* mapping is the one produced by running the two batches in some order
C9_BatchesSerialized ==
  (ix[1].pc = "resolved" /\ ix[2].pc = "resolved")
    => Mapping(documentVectors) \in {Serial(ix[1].documents, ix[2].documents),
                                     Serial(ix[2].documents, ix[1].documents)}

\* C10: a resolved VectorSearch.search holds at most topK entries of
\* distinct stored ids, the highest-scoring ones, in descending score order
\* with equal scores in ascending id order
C10_TopKOrdered ==
  tk.pc = "resolved"
    => /\ Len(tk.result) <= tk.topK
       /\ \A i, j \in 1..Len(tk.result) :
            i < j => \/ tk.result[i].score > tk.result[j].score
                     \/ /\ tk.result[i].score = tk.result[j].score
                        /\ tk.result[i].id < tk.result[j].id

\* the vector of the last document of the list that has the id
LastVector(documents, id) ==
  LET last == CHOOSE k \in 1..Len(documents) :
                /\ documents[k].id = id
                /\ \A j \in (k + 1)..Len(documents) : documents[j].id # id
  IN Encode(preprocessText(documents[last].content))

\* C11: when an initializeVectors call that ran alone has resolved, the
\* stored mapping is the one the chunk loop yields with chunks of 1 and with
\* chunks of 32, and every id of the list holds the vector of its last
\* occurrence
C11_ChunkSizeInvariant ==
  ix[1].pc = "resolved"
    => /\ Mapping(documentVectors)
            = Mapping(IndexInChunks(<<>>, ix[1].documents, 0, 1))
       /\ Mapping(documentVectors)
            = Mapping(IndexInChunks(<<>>, ix[1].documents, 0, batchSize))
       /\ MapKeys(documentVectors) = {ix[1].documents[k].id : k \in 1..Len(ix[1].documents)}
       /\ \A id \in MapKeys(documentVectors) :
            MapGet(documentVectors, id) = LastVector(ix[1].documents, id)

\* a resolved run of two chunks in which the second chunk overwrites an id
C11_Witness ==
  /\ ix[1].pc = "resolved"
  /\ ix[1].documents = ChunkEdgeBatch
  /\ MapGet(documentVectors, 1) = Encode(<<"q">>)
  /\ MapGet(documentVectors, 2) = Encode(<<"a">>)

\* some embedding call of the callbacks failed
EncoderFailure(ts) == \E k \in DOMAIN ts : ts[k].sim.error = "EncoderFailed"

\* C12: when search has been run twice with the same text and ids over the
\* same index, and the callbacks of both runs have settled without a failing
\* encoder call, the two runs returned the same keys and left the same
\* mapping, whatever the order in which the callbacks of each run completed
C12_SearchDeterministic ==
  (/\ previous # NoRun
   /\ Settled
   /\ previous[1].documentVectors = documentVectors
   /\ ~EncoderFailure(tasks)
   /\ ~EncoderFailure(previous[1].tasks))
    => /\ searchCall.returnedKeys = previous[1].searchCall.returnedKeys
       /\ results = previous[1].results

\* two runs over two scored records whose callbacks completed in opposite
\* orders
C12_Witness ==
  /\ previous # NoRun
  /\ Settled
  /\ Len(tasks) = 2
  /\ tasks[1].pc = "done" /\ tasks[2].pc = "done"
  /\ tasks[1].at < tasks[2].at
  /\ previous[1].tasks[1].at > previous[1].tasks[2].at
  /\ results[tasks[1].issueId] # results[tasks[2].issueId]
  /\ documentVectors # <<>>

\* C13: for every callback that scores a record, none of the four scoring
\* functions raised, whatever the query terms
C13_ScorersNeverRaise ==
  \A k \in DOMAIN tasks :
    ~Unresolvable(tasks[k].issueId)
      => /\ ~TaskScores(k).threw
         /\ ~(tasks[k].pc = "rejected" /\ tasks[k].sim.pc = "idle")

\* the similarities of a term to the words of a content
Similarities(content, term) ==
  LET words == tokenizeContent(content)
  IN {StringSimilarityCalculate(term, words[k]) : k \in 1..Len(words)}

\* the greatest of them, 0 when the content has no word
BestSimilarity(content, term) ==
  LET sims == Similarities(content, term) \cup {0}
  IN CHOOSE x \in sims : \A y \in sims : y <= x

\* sum of the contributions of the entries from position k on
RECURSIVE FuzzySum(_, _)
FuzzySum(entries, k) ==
  IF k > Len(entries) THEN 0
  ELSE (entries[k].score * Config.fuzzyMatchWeight) \div 10 + FuzzySum(entries, k + 1)

\* C14: after a call of calculateFuzzyScore the fuzzyMatches are, in term
\* order, one entry for every term whose best similarity is above the
\* threshold and none for a term whose best similarity equals the threshold
\* or is below it; an entry carries the best similarity, and the returned
\* score is the sum of best similarity times fuzzyMatchWeight, capped at 2
C14_FuzzyThreshold ==
  scorer.fn = "fuzzy"
    => LET Above(term) ==
             BestSimilarity(scorer.content, term) > Config.fuzzySearchThreshold
           matching == SelectSeq(scorer.searchTerms, Above)
           entries == scorer.matchDetails.fuzzyMatches
       IN /\ Len(entries) = Len(matching)
          /\ \A i \in 1..Len(entries) :
               /\ entries[i].original = matching[i]
               /\ entries[i].score = BestSimilarity(scorer.content, matching[i])
               /\ StringSimilarityCalculate(matching[i], entries[i].matched)
                    = entries[i].score
          /\ scorer.score = Min(FuzzySum(entries, 1), 2 * Scale)

\* a call with one term whose best similarity is exactly the threshold and
\* one whose best similarity is above it
C14_Witness ==
  /\ scorer.fn = "fuzzy"
  /\ Len(scorer.searchTerms) = 2
  /\ BestSimilarity(scorer.content, scorer.searchTerms[1]) = Config.fuzzySearchThreshold
  /\ BestSimilarity(scorer.content, scorer.searchTerms[2]) > Config.fuzzySearchThreshold
  /\ Len(scorer.matchDetails.fuzzyMatches) = 1
  /\ scorer.score = (8 * Scale * 7) \div 100

\* the number of terms of the list that the text starts with
PrefixCount(text, terms) ==
  Cardinality({k \in 1..Len(terms) : StartsWith(text, terms[k])})

\* C15: after a call of calculateTitleScore the returned score is the
\* minimum of 3 and: exactMatchBonus for every term contained in the
\* lowercased title, plus 0.5 for every term the title starts with, plus 1
\* when there are at least 2 terms and the title contains the terms joined
\* by blanks; titleMatches holds exactly the contained terms, in term order
C15_TitleScoreFormula ==
  scorer.fn = "title"
    => LET title == ToLower(scorer.title)
           InTitle(term) == Includes(title, term)
           contained == SelectSeq(scorer.searchTerms, InTitle)
           phrase == IF /\ Len(scorer.searchTerms) >= 2
                        /\ Includes(title, JoinSpace(scorer.searchTerms))
                     THEN Scale ELSE 0
           sum == Len(contained) * Config.exactMatchBonus
                  + PrefixCount(title, contained) * (Scale \div 2)
                  + phrase
       IN /\ scorer.score = Min(3 * Scale, sum)
          /\ scorer.matchDetails.titleMatches = contained

\* the example of the title that starts with the only query term
C15_Witness ==
  /\ scorer.fn = "title"
  /\ scorer.title = <<"L", "o", "g", "i", "n", " ", "f", "a", "i", "l", "s", " ",
                      "o", "n", " ", "S", "a", "f", "a", "r", "i">>
  /\ scorer.searchTerms = << <<"l", "o", "g", "i", "n">> >>
  /\ scorer.score = (3 * Scale) \div 2
  /\ scorer.matchDetails.titleMatches = << <<"l", "o", "g", "i", "n">> >>

\* 0.3 title + 0.2 body + 0.2 fuzzy + 0.1 meta + 0.2 vector, in tenths
WeightedSum(title, body, fuzzy, meta, vector) ==
  3 * title + 2 * body + 2 * fuzzy + 1 * meta + 2 * vector

\* C16: the result a completed callback stored for its record is visible
\* exactly when the weighted sum of the five sub-scores is positive or the
\* number matched; a visible result carries that sum as its score and an
\* invisible one 0, so a record without any signal is invisible with score
\* 0, unlike the result of the empty query
C16_VisibleAndTotal ==
  \A k \in DOMAIN tasks :
    tasks[k].pc = "done"
      => LET sc == TaskScores(k)
             total == WeightedSum(sc.title, sc.body, sc.fuzzy, sc.meta,
                                  tasks[k].sim.value)
             result == results[tasks[k].issueId]
         IN /\ result.visible = (total > 0 \/ sc.matchDetails.numberMatch)
            /\ result.score = IF result.visible THEN total ELSE 0
            /\ result.matchDetails.similarityScore = tasks[k].sim.value
            /\ total = 0 /\ ~sc.matchDetails.numberMatch
                 => /\ result = createEmptyResult(FALSE)
                    /\ result # createEmptyResult(TRUE)

\* one record visible by its title and its vector, another without any signal
C16_Witness ==
  /\ Len(tasks) = 2
  /\ tasks[1].pc = "done" /\ tasks[2].pc = "done"
  /\ tasks[1].sim.value > 0
  /\ TaskScores(1).title > 0
  /\ results[tasks[1].issueId].visible
  /\ results[tasks[1].issueId].score > 2 * tasks[1].sim.value
  /\ ~results[tasks[2].issueId].visible
  /\ results[tasks[2].issueId].score = 0

\* the _initializeEncoder calls that await pipeline()
InitsInFlight ==
  (IF ctorInit = "pending" THEN 1 ELSE 0)
  + Cardinality({c \in IndexCallers : ix[c].pc = "awaitInit"})

\* C17: at any time at most one encoder initialization is in flight
C17_SingleInitialization == InitsInFlight <= 1

\* filterIssues has run with a non-empty filter text and the callbacks of
\* its search have settled
FilteredAndSettled ==
  /\ container.calls > 0
  /\ searchCall.searchText # <<>>
  /\ Settled

\* C18: after filterIssues has run with a non-empty filter text, every
\* child whose id has a result of this query is shown exactly when that
\* result is visible and carries its score rendered with 3 decimals
C18_DisplayFollowsQuery ==
  FilteredAndSettled
    => \A k \in 1..Len(container.children) :
         LET child == container.children[k]
         IN (child.issueId # Undefined /\ child.issueId[1] \in DOMAIN results)
              => /\ child.display
                      = IF results[child.issueId[1]].visible THEN "block" ELSE "none"
                 /\ child.relevance = <<ToFixed3(results[child.issueId[1]].score)>>

\* C19: the order filterIssues used for a non-empty filter text is
\* descending in the scores of the results of this query
C19_OrderFollowsQuery ==
  FilteredAndSettled
    => \A i, j \in 1..Len(container.sorted) :
         LET a == container.children[container.sorted[i]]
             b == container.children[container.sorted[j]]
         IN (/\ i < j
             /\ a.issueId # Undefined /\ a.issueId[1] \in DOMAIN results
             /\ b.issueId # Undefined /\ b.issueId[1] \in DOMAIN results)
              => results[a.issueId[1]].score >= results[b.issueId[1]].score

\* C20: whenever a vector is stored the encoder is set, and a call of
\* getSimilarityScore for an id that had a stored vector never ends in the
\* error raised when the encoder is not initialized
C20_VectorsImplyEncoder ==
  /\ documentVectors # <<>> => encoder = "ready"
  /\ gs.hadVector => gs.call.error # "EncoderNotInitialized"

\* a call for an indexed id, with terms, that went past the encoder test
\* while the constructor's initialization had failed
C20_Witness ==
  /\ documentVectors # <<>>
  /\ ctorInit = "rejected"
  /\ gs.hadVector
  /\ gs.queryTerms # <<>>
  /\ gs.call.pc = "awaitEncoder"

\* the entry the current cache holds for the URL of a request
CurrentEntry(request) ==
  LET held == {k \in 1..Len(cacheStorage) :
                 /\ cacheStorage[k].name = cacheName
                 /\ Key(request.path, request.search) \in DOMAIN cacheStorage[k].entries}
  IN IF held = {} THEN Undefined
     ELSE <<cacheStorage[CHOOSE k \in held : TRUE].entries[
              Key(request.path, request.search)]>>

\* C21: every cache entry a fetch event wrote is the ok network response of
\* an http(s) request without a query string; a request with a query
\* string is answered by the network only, never read from or written to
\* the cache; an event whose network response was not ok or failed wrote
\* nothing
C21_CacheOnlyOkResponses ==
  /\ \A k \in 1..Len(cacheStorage) :
       \A key \in DOMAIN cacheStorage[k].entries :
         LET entry == cacheStorage[k].entries[key]
         IN entry.by = "fetch"
              => /\ entry.ok
                 /\ key.search = ""
                 /\ fetchEvents[entry.event].network = "ok"
                 /\ fetchEvents[entry.event].request.scheme \in {"http:", "https:"}
                 /\ fetchEvents[entry.event].request.path = key.path
                 /\ fetchEvents[entry.event].request.search = ""
  /\ \A e \in DOMAIN fetchEvents :
       LET event == fetchEvents[e]
       IN /\ event.wrote
               => /\ event.network = "ok"
                  /\ event.request.scheme \in {"http:", "https:"}
                  /\ event.request.search = ""
          /\ (event.request.scheme \in {"http:", "https:"}
              /\ event.request.search # "")
               => /\ event.cached = Undefined
                  /\ ~event.wrote
                  /\ CurrentEntry(event.request) = Undefined
                  /\ event.answered \in {"none", "network", "networkError"}
                  /\ event.pc = "done" => event.answered # "none"
                  /\ event.answered = "network" <=> event.network \in {"ok", "notOk"}
          /\ event.network \in {"notOk", "failed"} => ~event.wrote

\* a fetch event stored its ok response, and a later event for the same URL
\* that was served this entry got a response that was not ok, or none, and
\* left the entry as it was
C21_Witness ==
  \E e1, e2 \in DOMAIN fetchEvents :
    /\ e1 < e2
    /\ fetchEvents[e1].wrote
    /\ fetchEvents[e2].request = fetchEvents[e1].request
    /\ fetchEvents[e2].cached = <<Entry(TRUE, "fetch", e1)>>
    /\ fetchEvents[e2].network \in {"notOk", "failed"}
    /\ fetchEvents[e2].pc = "done"
    /\ CurrentEntry(fetchEvents[e2].request) = <<Entry(TRUE, "fetch", e1)>>

\* the activate handler has completed and its catch did not run
ActivatedWithoutError == worker.phase = "activated" /\ ~worker.error

\* C22: once the activate handler has completed without error no cache of
\* another name than cacheName exists any more, whatever fetch events
\* follow, and whatever a fetch event wrote is in the cache of that name
C22_OnlyCurrentCache ==
  /\ ActivatedWithoutError => CacheNames(cacheStorage) \subseteq {cacheName}
  /\ \A k \in 1..Len(cacheStorage) :
       (\E key \in DOMAIN cacheStorage[k].entries :
          cacheStorage[k].entries[key].by = "fetch")
         => cacheStorage[k].name = cacheName

\* the activate handler found the caches of earlier versions, completed
\* without error, and a fetch event has since updated the cache
C22_Witness ==
  /\ ActivatedWithoutError
  /\ {"pwacache-v2", "pwacache-v3"} \subseteq worker.cacheNames
  /\ CacheNames(cacheStorage) = {cacheName}
  /\ \E e \in DOMAIN fetchEvents : fetchEvents[e].wrote

\* C23: the namespace changes only by a POST with a non-empty key and a
\* non-empty value, which stores exactly that pair and answers 200; a POST
\* without one of them answers 400, a GET 200 or 404, any other method
\* 405 and a request whose handler threw 500, all four leaving the
\* namespace as it was
C23_StoreChangesOnlyBySet ==
  reply.method # "none"
    => LET complete == Truthy(reply.key) /\ Truthy(reply.value)
       IN /\ reply.threw => reply.status = 500
          /\ (reply.method = "POST" /\ complete /\ ~reply.threw)
               => /\ reply.status = 200
                  /\ userToReferral = Put(reply.before, reply.key[1], reply.value[1])
          /\ (reply.method = "POST" /\ ~complete) => reply.status = 400
          /\ (reply.method = "GET" /\ ~reply.threw) => reply.status \in {200, 404}
          /\ reply.method \notin {"POST", "GET"} => reply.status = 405
          /\ ~(reply.method = "POST" /\ complete /\ ~reply.threw)
               => userToReferral = reply.before
          /\ (reply.method = "GET" /\ reply.key # <<>> /\ ~reply.threw)
               => (reply.status = 200
                     <=> /\ reply.key[1] \in DOMAIN reply.before
                         /\ reply.before[reply.key[1]] # "")

\* a POST without a value was refused while the namespace held a pair that
\* an earlier POST had stored
C23_Witness ==
  /\ reply.method = "POST"
  /\ Truthy(reply.key) /\ ~Truthy(reply.value)
  /\ reply.status = 400
  /\ reply.before # <<>>
  /\ reply.key[1] \notin DOMAIN userToReferral

====
